---------------------------- MODULE Spec2Model ----------------------------
(***************************************************************************)
(* A model of the synchronization core of GitLite                          *)
(* (src-tauri/src/main.rs): a local repository (commit graph, HEAD, local  *)
(* branch refs, remote-tracking refs, upstream configuration, index and    *)
(* working tree), the remote repository "origin", and the tauri commands   *)
(* that act on them.                                                       *)
(*                                                                         *)
(* The commands call the git2 crate.  Every git2 call is modelled by the   *)
(* contract the git2 / libgit2 documentation gives for it, on the          *)
(* repository state of the model; the comment of each operator quotes the  *)
(* part of the contract it relies on.  Network outcomes (a fetch or a push *)
(* reaching the remote or not) and the outcome of each credential strategy *)
(* are inputs drawn nondeterministically.                                  *)
(***************************************************************************)
EXTENDS Integers, Sequences, FiniteSets, TLC

\* ---------------------------------------------------------------- bounds

\* The commit graph holds at most MaxCommits commits written by the user's
\* commits and by other clients of the remote; a pull may add one merge commit.
MaxCommits == 3

\* The remote issues at most MaxChallenges challenges on one connection.
MaxChallenges == 2

\* The stash list holds at most MaxStashes entries, and delete_stash drops at
\* most MaxDrops different stash commits.
MaxStashes == 2
MaxDrops == 1


\* ------------------------------------------------------------- universes

Paths == {"a"}

\* A file's content: 0 (the file does not exist) or one of two contents.
Contents == {0, 1, 2}

Trees == [Paths -> Contents]

\* Local branch names.  refs/heads/<b>, refs/remotes/origin/<b>.
Branches == {"main"}

\* A commit id that names no commit (an absent ref).
NoCommit == 0

\* The values of the upstream configuration of a branch (branch.<b>.remote and
\* branch.<b>.merge): none, origin/<b>, or the same branch of another remote.
NoUpstream == "none"

VARIABLES
    commits,      \* the object store: Seq of [parents, tree, message]; id = position
    head,         \* HEAD: [symbolic |-> TRUE, branch |-> b] or detached at oid
    refs,         \* refs/heads/<b> -> commit id (NoCommit: absent)
    tracking,     \* refs/remotes/origin/<b> -> commit id (NoCommit: absent)
    originHead,   \* whether refs/remotes/origin/HEAD exists (symbolic, to origin/main)
    upstream,     \* the upstream configuration of each local branch
    index,        \* the staging area: path -> content
    workdir,      \* the working tree: path -> content
    remoteRefs,   \* the remote repository: refs/heads/<b> -> commit id
    last,         \* the last command: its name and its result
    auth,         \* the credential negotiation of a connection to the remote
    view,         \* what the last read-only command returned, until a command
                  \* changes the repository
    stashes,      \* the reflog of refs/stash: the stash commits, newest first
    dropped,      \* the ids of the stash commits delete_stash has dropped
    running,      \* the commands in flight: the position of each and what it
                  \* has read so far
    recent        \* recent_repos.json: the list of recent repositories

vars == <<commits, head, refs, tracking, originHead, upstream, index, workdir,
          remoteRefs, last, auth, view, stashes, dropped, running, recent>>

\* ------------------------------------------------------- the commit graph

RECURSIVE ReachIn(_, _)
\* The commits of the store cs reachable from commit c through parent links,
\* c included.
ReachIn(cs, c) ==
    IF c = NoCommit THEN {}
    ELSE {c} \cup UNION {ReachIn(cs, cs[c].parents[i]) :
                            i \in 1..Len(cs[c].parents)}

Reach(c) == ReachIn(commits, c)

IsAncestor(a, b) == a \in Reach(b)

\* git2::Repository::merge_base: "Find a merge base between two commits"; an
\* error when the two commits share no ancestor.  A best common ancestor is a
\* common ancestor that is not an ancestor of another common ancestor.
MergeBase(a, b) ==
    LET common == Reach(a) \cap Reach(b)
        best == {c \in common : \A d \in common \ {c} : ~IsAncestor(c, d)}
    IN  IF best = {} THEN NoCommit ELSE CHOOSE c \in best : TRUE

\* git2::Repository::graph_ahead_behind(local, upstream).
Ahead(local, up) == Cardinality(Reach(local) \ Reach(up))
Behind(local, up) == Cardinality(Reach(up) \ Reach(local))

TreeOf(c) == IF c = NoCommit THEN [p \in Paths |-> 0] ELSE commits[c].tree

\* ------------------------------------------------------------ HEAD, refs

Symbolic(b) == [symbolic |-> TRUE, branch |-> b, oid |-> NoCommit]
Detached(c) == [symbolic |-> FALSE, branch |-> "HEAD", oid |-> c]

\* git2::Repository::refname_to_id("HEAD"): "Lookup a reference by name and
\* resolve immediately to OID".
HeadOidOf(h, rs) == IF h.symbolic THEN rs[h.branch] ELSE h.oid

HeadOid == HeadOidOf(head, refs)

\* git2::Reference::shorthand of repo.head(): the branch name when HEAD is on
\* a branch; "HEAD" when HEAD is detached (the name has no refs/ prefix to strip).
\* main.rs:932  let branch_name = head.shorthand().unwrap_or("main");
BranchName(h) == IF h.symbolic THEN h.branch ELSE "HEAD"

\* ------------------------------------------------------------ the command log

\* The record of a command: op names the command, ok is Ok(..) / Err(..),
\* outcome names the return site.
\* The return sites of a failed network step: remote.fetch or remote.push
\* returned Err(e).
NetworkFailures == {"fetch_failed", "push_failed"}

\* What the Err string of a failed network step carries.
\*   main.rs:897, 971   format!("Failed to push: {} (see log: {})", e, log_path)
\*   main.rs:1181, 1408, 1541, 1757   format!("Failed to fetch: {}", e)
\* The URL and the refspec go to log_message (main.rs:895, 969) or to the log
\* lines of the command (main.rs:1179, 1366, 1539), never into the Err.
ErrorValue(op, outcome) ==
    IF outcome \notin NetworkFailures THEN {}
    ELSE IF op \in {"push_changes", "pull_changes"} THEN {"cause", "log_path"}
    ELSE {"cause"}

\* The calls of remote.fetch / remote.push a command has made when it returns
\* (main.rs:893, 967, 1162, 1319, 1503, 1749: one call, in no loop).
NetworkAttempts(op) == IF op = "none" THEN 0 ELSE 1

Result(op, ok, outcome) ==
    [op |-> op, ok |-> ok, outcome |-> outcome,
     error |-> ErrorValue(op, outcome)]

InitialTree == [p \in Paths |-> 1]

\* git2::CredentialType: the credential types a challenge of the remote allows.
CredentialTypes == {"DEFAULT", "SSH_KEY", "USER_PASS_PLAINTEXT", "USERNAME"}

\* No read-only command has returned since the repository changed.
NoView == [op |-> "none"]

\* A command that is not running.
Idle == [pc |-> "idle"]

\* No command is in flight.
NoCalls == [get_workspace_status |-> Idle, pull_changes |-> Idle]

\* No connection is negotiating credentials.
NoNegotiation ==
    [phase |-> "idle", op |-> "none", transport |-> "none", allowed |-> {},
     tried |-> <<>>, ok |-> FALSE, works |-> {}, challenges |-> 0]

Init ==
    /\ commits = << [parents |-> <<>>, tree |-> InitialTree, message |-> <<"init">>] >>
    /\ head = Symbolic("main")
    /\ refs = [b \in Branches |-> 1]
    /\ tracking = [b \in Branches |-> 1]
    /\ originHead = TRUE
    /\ upstream = [b \in Branches |-> "origin"]
    /\ index = InitialTree
    /\ workdir = InitialTree
    /\ remoteRefs = [b \in Branches |-> 1]
    /\ last = Result("none", TRUE, "none")
    /\ auth = NoNegotiation
    /\ view = NoView
    /\ stashes = <<>>
    /\ dropped = {}
    /\ running = NoCalls
    /\ recent = <<>>

\* -------------------------------------------------- index and working tree

\* git2::Repository::diff_index_to_workdir(Some(&index), None).stats().files_changed()
\* with default DiffOptions: the tracked paths (present in the index) whose
\* working-tree file differs from the index entry or is gone.  Untracked files
\* are left out ("include_untracked" is off by default).
\* main.rs:1009-1013, 1818-1822
DiffIndexToWorkdirCount(idx, wd) ==
    Cardinality({p \in Paths : idx[p] # 0 /\ wd[p] # idx[p]})

\* The staged changes: the paths whose index entry differs from the HEAD tree.
StagedPaths(idx, c) == {p \in Paths : idx[p] # TreeOf(c)[p]}

\* The unstaged changes: the paths whose working-tree file differs from the index.
UnstagedPaths(idx, wd) == {p \in Paths : wd[p] # idx[p]}

\* git2::Repository::index(): the repository's own index.
RepoIndex(idx) == [owner |-> TRUE, entries |-> idx, conflicts |-> {}]

\* One path of a three-way merge: base b, ours o, theirs t.
MergeEntry(b, o, t) ==
    IF o = t THEN o ELSE IF o = b THEN t ELSE IF t = b THEN o ELSE o

MergeConflicts(b, o, t) == o # t /\ o # b /\ t # b

\* A merge whose index is the repository's own, which write_tree can write.
MergeCommits_Owned(ours, theirs) ==
    LET base == TreeOf(MergeBase(ours, theirs))
    IN  [owner |-> TRUE,
         entries |-> [p \in Paths |->
                        MergeEntry(base[p], TreeOf(ours)[p], TreeOf(theirs)[p])],
         conflicts |-> {p \in Paths :
                        MergeConflicts(base[p], TreeOf(ours)[p], TreeOf(theirs)[p])}]

\* git2::Repository::merge_commits(our, their, None): "Merge two commits,
\* producing an index that reflects the result of the merge."  The index is a
\* new in-memory index: it belongs to no repository.
\* main.rs:1062, 1909
MergeCommits(ours, theirs) ==
    LET base == TreeOf(MergeBase(ours, theirs))
    IN  [owner |-> FALSE,
         entries |-> [p \in Paths |->
                        MergeEntry(base[p], TreeOf(ours)[p], TreeOf(theirs)[p])],
         conflicts |-> {p \in Paths :
                        MergeConflicts(base[p], TreeOf(ours)[p], TreeOf(theirs)[p])}]

\* A write_tree that writes any index, conflicted or owned by no repository.
IndexWriteTree_Always(idx) == [ok |-> TRUE, tree |-> idx.entries]

\* git2::Index::write_tree: "The index instance cannot be bare, and needs to
\* be associated to an existing repository.  The index must not contain any
\* file in conflict."  (An index that belongs to no repository is written with
\* write_tree_to.)
\* main.rs:805, 1071, 1923
IndexWriteTree(idx) ==
    IF idx.owner /\ idx.conflicts = {}
    THEN [ok |-> TRUE, tree |-> idx.entries]
    ELSE [ok |-> FALSE, tree |-> idx.entries]

\* --------------------------------------------------------------- commits

\* git2::Repository::commit(Some("HEAD"), .., message, tree, parents): writes
\* the commit and updates HEAD to it; when HEAD is symbolic the branch it
\* names is updated.
CommitToHead(h, rs, cs, message, tree, parents) ==
    LET id == Len(cs) + 1
    IN  [commits |-> Append(cs, [parents |-> parents, tree |-> tree,
                                 message |-> message]),
         head |-> IF h.symbolic THEN h ELSE Detached(id),
         refs |-> IF h.symbolic THEN [rs EXCEPT ![h.branch] = id] ELSE rs,
         id |-> id]

\* ------------------------------------------------------- local editing

\* The user writes, changes or deletes a file of the working tree.
EditFile(p, c) ==
    /\ c # workdir[p]
    /\ workdir' = [workdir EXCEPT ![p] = c]
    /\ last' = Result("edit", TRUE, "edited")
    /\ view' = NoView
    /\ UNCHANGED <<running, recent, stashes, dropped, auth, commits, head, refs, tracking, originHead, upstream, index,
                   remoteRefs>>

\* main.rs:760-772.  git2::Index::add_path: "The file path must be relative to
\* the repository's working folder and must be readable": staging a path whose
\* file is gone is an error.
stage_file(p) ==
    /\ IF workdir[p] = 0
       THEN /\ last' = Result("stage_file", FALSE, "add_path_failed")
            /\ UNCHANGED index
       ELSE /\ index' = [index EXCEPT ![p] = workdir[p]]
            /\ last' = Result("stage_file", TRUE, "staged")
    /\ view' = NoView
    /\ UNCHANGED <<running, recent, stashes, dropped, auth, commits, head, refs, tracking, originHead, upstream, workdir,
                   remoteRefs>>

\* An index that never counts as empty.
IndexLen_Nonzero(idx) == Cardinality(Paths)

\* main.rs:801  if index.len() == 0
IndexLen(idx) == Cardinality({p \in Paths : idx[p] # 0})

\* A commit without parents, whatever HEAD is.
parent_commit_None(h) == <<>>

\* main.rs:808-813: the commit of HEAD; None when repo.head() fails, as it
\* does on a branch that has no commit yet.
parent_commit(h) == IF h = NoCommit THEN <<>> ELSE <<h>>

\* main.rs:794-828
commit_changes ==
    IF IndexLen(index) = 0
    THEN /\ last' = Result("commit_changes", FALSE, "nothing_staged")
         /\ view' = NoView
         /\ UNCHANGED <<running, recent, stashes, dropped, auth, commits, head, refs, tracking, originHead, upstream,
                        index, workdir, remoteRefs>>
    ELSE /\ Len(commits) < MaxCommits
         /\ LET wt == IndexWriteTree(RepoIndex(index))
                c == CommitToHead(head, refs, commits, <<"user">>, wt.tree,
                                 parent_commit(HeadOid))
            IN  /\ commits' = c.commits
                /\ head' = c.head
                /\ refs' = c.refs
         /\ last' = Result("commit_changes", TRUE, "committed")
         /\ view' = NoView
         /\ UNCHANGED <<running, recent, stashes, dropped, auth, tracking, originHead, upstream, index, workdir, remoteRefs>>

\* ------------------------------------------------------------ the remote

\* Another client pushes a commit to branch b of the remote repository: the
\* state of the remote that fetch (main.rs:967) and push (main.rs:893) meet.
RemoteCommit(b, t) ==
    /\ Len(commits) < MaxCommits
    /\ remoteRefs[b] # NoCommit
    /\ commits' = Append(commits, [parents |-> <<remoteRefs[b]>>, tree |-> t,
                                   message |-> <<"remote">>])
    /\ remoteRefs' = [remoteRefs EXCEPT ![b] = Len(commits) + 1]
    /\ last' = Result("remote_commit", TRUE, "remote")
    /\ view' = NoView
    /\ UNCHANGED <<running, recent, stashes, dropped, auth, head, refs, tracking, originHead, upstream, index, workdir>>

\* ----------------------------------------------------------------- fetch

\* remote.fetch(&[refspec]) with refspec refs/heads/<name>:refs/remotes/origin/<name>
\* (main.rs:966-967, 1745-1749): the remote-tracking ref of <name> is set to the
\* remote's branch <name>, when the remote has such a branch.  With HEAD
\* detached <name> is "HEAD", and the remote has no branch of that name.
FetchBranch(name, tr, rr) ==
    IF name \in Branches /\ rr[name] # NoCommit
    THEN [tr EXCEPT ![name] = rr[name]]
    ELSE tr

\* remote.fetch(&[]) (main.rs:1162): the remote's configured refspec,
\* +refs/heads/*:refs/remotes/origin/*, updates every remote-tracking ref.
FetchAll(tr, rr) ==
    [b \in Branches |-> IF rr[b] # NoCommit THEN rr[b] ELSE tr[b]]

\* repo.refname_to_id("refs/remotes/origin/<name>") (main.rs:975-982): the
\* commit of the ref, resolved through a symbolic ref (origin/HEAD points to
\* origin/main); NoCommit stands for the Err of a missing ref.
RemoteBranchOid(name, tr, oh) ==
    IF name \in Branches THEN tr[name]
    ELSE IF oh THEN tr["main"] ELSE NoCommit

\* A fetch that also moves the local branches to what it fetched.
fetch_changes_with_logs_MovesBranches ==
    \E netOk \in BOOLEAN :
        /\ tracking' = IF netOk THEN FetchAll(tracking, remoteRefs) ELSE tracking
        /\ refs' = IF netOk THEN FetchAll(refs, remoteRefs) ELSE refs
        /\ last' = Result("fetch_changes_with_logs", netOk,
                          IF netOk THEN "fetched" ELSE "fetch_failed")
        /\ view' = NoView
        /\ UNCHANGED <<running, recent, stashes, dropped, auth, commits, head, originHead, upstream, index, workdir,
                       remoteRefs>>

\* main.rs:1094-1183
fetch_changes_with_logs ==
    \E netOk \in BOOLEAN :
        /\ tracking' = IF netOk THEN FetchAll(tracking, remoteRefs) ELSE tracking
        /\ last' = Result("fetch_changes_with_logs", netOk,
                          IF netOk THEN "fetched" ELSE "fetch_failed")
        /\ view' = NoView
        /\ UNCHANGED <<running, recent, stashes, dropped, auth, commits, head, refs, originHead, upstream, index, workdir,
                       remoteRefs>>

\* ------------------------------------------------------------------ pull

\* An up-to-date test that never holds.
UpToDate_Never(remote_branch_oid, local_head_oid) == FALSE

\* main.rs:994  if remote_branch_oid == local_head_oid
UpToDate(remote_branch_oid, local_head_oid) == remote_branch_oid = local_head_oid

\* main.rs:1015  if diff_count > 0
HasUncommittedChanges(idx, wd) == DiffIndexToWorkdirCount(idx, wd) > 0

\* A fast-forward test that holds for diverged histories too.
IsFastForward_Always(local_head_oid, remote_branch_oid) == TRUE

\* main.rs:1038-1041
\*   let is_ff = match repo.merge_base(local_head_oid, remote_branch_oid) {
\*       Ok(base) => base == local_head_oid, Err(_) => false };
IsFastForward(local_head_oid, remote_branch_oid) ==
    LET base == MergeBase(local_head_oid, remote_branch_oid)
    IN  base # NoCommit /\ base = local_head_oid

\* A set_target that fails on a symbolic HEAD after it has rewritten HEAD.
SetTargetOfHead_WritesThenFails(h, oid) ==
    [ok |-> ~h.symbolic, head |-> Detached(oid)]

\* main.rs:1045-1056: repo.find_reference("HEAD") and reference.set_target(oid).
\* find_reference does not resolve: with HEAD on a branch it yields the
\* symbolic reference HEAD.  git2::Reference::set_target: "The reference must
\* be a direct reference, otherwise this will fail."
SetTargetOfHead(h, oid) ==
    IF h.symbolic
    THEN [ok |-> FALSE, head |-> h]
    ELSE [ok |-> TRUE, head |-> Detached(oid)]

\* main.rs:1082  &format!("Merge branch 'origin/{}'", branch_name)
MergeMessage(name) == <<"Merge branch 'origin/", name, "'">>

\* What a pull does after its fetch: ok, the return site, and the commit
\* store, HEAD and local refs it leaves.
PullKeep(ok, outcome) ==
    [ok |-> ok, outcome |-> outcome, commits |-> commits, head |-> head,
     refs |-> refs]

\* main.rs:974-1089, the steps of pull_changes after its fetch; tr is the
\* remote-tracking namespace the fetch left.
pull_changes_steps(tr) ==
    LET branch_name == BranchName(head)
        remote_branch_oid == RemoteBranchOid(branch_name, tr, originHead)
        local_head_oid == HeadOid
    IN  IF remote_branch_oid = NoCommit THEN PullKeep(FALSE, "remote_ref_missing")
        ELSE IF UpToDate(remote_branch_oid, local_head_oid)
        THEN PullKeep(TRUE, "up_to_date")
        ELSE IF HasUncommittedChanges(index, workdir)
        THEN PullKeep(FALSE, "uncommitted_changes")
        ELSE IF IsFastForward(local_head_oid, remote_branch_oid)
        THEN LET r == SetTargetOfHead(head, remote_branch_oid)
             IN  IF r.ok
                 THEN [ok |-> TRUE, outcome |-> "fast_forward",
                       commits |-> commits, head |-> r.head, refs |-> refs]
                 ELSE [ok |-> FALSE, outcome |-> "fast_forward_failed",
                       commits |-> commits, head |-> r.head, refs |-> refs]
        ELSE LET merge_index == MergeCommits(local_head_oid, remote_branch_oid)
                 merge_tree == IndexWriteTree(merge_index)
             IN  IF ~merge_tree.ok THEN PullKeep(FALSE, "write_merge_tree_failed")
                 ELSE LET c == CommitToHead(head, refs, commits,
                                   MergeMessage(branch_name), merge_tree.tree,
                                   <<local_head_oid, remote_branch_oid>>)
                      IN  [ok |-> TRUE, outcome |-> "merged",
                           commits |-> c.commits, head |-> c.head,
                           refs |-> c.refs]

\* A logging pull without the guard on uncommitted changes.
pull_changes_with_logs_steps_NoGuard(tr) ==
    LET branch_name == BranchName(head)
        remote_branch_oid == RemoteBranchOid(branch_name, tr, originHead)
        local_head_oid == HeadOid
    IN  IF remote_branch_oid = NoCommit THEN PullKeep(FALSE, "remote_ref_missing")
        ELSE IF UpToDate(remote_branch_oid, local_head_oid)
        THEN PullKeep(TRUE, "up_to_date")
        ELSE IF IsFastForward(local_head_oid, remote_branch_oid)
        THEN LET r == SetTargetOfHead(head, remote_branch_oid)
             IN  IF r.ok
                 THEN [ok |-> TRUE, outcome |-> "fast_forward",
                       commits |-> commits, head |-> r.head, refs |-> refs]
                 ELSE [ok |-> FALSE, outcome |-> "fast_forward_failed",
                       commits |-> commits, head |-> r.head, refs |-> refs]
        ELSE PullKeep(FALSE, "write_merge_tree_failed")

\* main.rs:1761-1949, the steps of pull_changes_with_logs after its fetch.
pull_changes_with_logs_steps(tr) ==
    LET branch_name == BranchName(head)
        remote_branch_oid == RemoteBranchOid(branch_name, tr, originHead)
        local_head_oid == HeadOid
    IN  IF remote_branch_oid = NoCommit THEN PullKeep(FALSE, "remote_ref_missing")
        ELSE IF UpToDate(remote_branch_oid, local_head_oid)
        THEN PullKeep(TRUE, "up_to_date")
        ELSE IF HasUncommittedChanges(index, workdir)
        THEN PullKeep(FALSE, "uncommitted_changes")
        ELSE IF IsFastForward(local_head_oid, remote_branch_oid)
        THEN LET r == SetTargetOfHead(head, remote_branch_oid)
             IN  IF r.ok
                 THEN [ok |-> TRUE, outcome |-> "fast_forward",
                       commits |-> commits, head |-> r.head, refs |-> refs]
                 ELSE [ok |-> FALSE, outcome |-> "fast_forward_failed",
                       commits |-> commits, head |-> r.head, refs |-> refs]
        ELSE LET merge_index == MergeCommits(local_head_oid, remote_branch_oid)
                 merge_tree == IndexWriteTree(merge_index)
             IN  IF ~merge_tree.ok THEN PullKeep(FALSE, "write_merge_tree_failed")
                 ELSE LET c == CommitToHead(head, refs, commits,
                                   MergeMessage(branch_name), merge_tree.tree,
                                   <<local_head_oid, remote_branch_oid>>)
                      IN  [ok |-> TRUE, outcome |-> "merged",
                           commits |-> c.commits, head |-> c.head,
                           refs |-> c.refs]

\* A pull command: the fetch, then the steps.  The commit store is bounded by
\* MaxCommits: a pull that would write a commit into a full store is not taken.
PullCommand(op, netOk, tr, r) ==
    /\ Len(r.commits) <= MaxCommits + 1
    /\ tracking' = tr
    /\ commits' = IF netOk THEN r.commits ELSE commits
    /\ head' = IF netOk THEN r.head ELSE head
    /\ refs' = IF netOk THEN r.refs ELSE refs
    /\ last' = IF netOk THEN Result(op, r.ok, r.outcome)
               ELSE Result(op, FALSE, "fetch_failed")
    /\ view' = NoView
    /\ UNCHANGED <<running, recent, stashes, dropped, auth, originHead, upstream, index, workdir, remoteRefs>>

\* main.rs:915-1090
pull_changes ==
    \E netOk \in BOOLEAN :
        LET tr == IF netOk THEN FetchBranch(BranchName(head), tracking, remoteRefs)
                  ELSE tracking
        IN  PullCommand("pull_changes", netOk, tr, pull_changes_steps(tr))

\* main.rs:1660-1950
pull_changes_with_logs ==
    \E netOk \in BOOLEAN :
        LET tr == IF netOk THEN FetchBranch(BranchName(head), tracking, remoteRefs)
                  ELSE tracking
        IN  PullCommand("pull_changes_with_logs", netOk, tr,
                        pull_changes_with_logs_steps(tr))

\* ------------------------------------------------ pull_changes, step by step

\* main.rs:915-991: the fetch, and the reads of refs/remotes/origin/<branch>
\* and of HEAD.  The command keeps the two commit ids in its locals.
pull_changes_fetch ==
    /\ running.pull_changes.pc = "idle"
    /\ \E netOk \in BOOLEAN :
          LET branch_name == BranchName(head)
              tr == IF netOk THEN FetchBranch(branch_name, tracking, remoteRefs)
                    ELSE tracking
              remote_branch_oid == RemoteBranchOid(branch_name, tr, originHead)
          IN  /\ tracking' = tr
              /\ IF netOk /\ remote_branch_oid # NoCommit
                 THEN /\ running' = [running EXCEPT !.pull_changes =
                                        [pc |-> "fetched",
                                         branch_name |-> branch_name,
                                         remote_branch_oid |-> remote_branch_oid,
                                         local_head_oid |-> HeadOid]]
                      /\ UNCHANGED last
                 ELSE /\ last' = Result("pull_changes", FALSE,
                                        IF netOk THEN "remote_ref_missing"
                                        ELSE "fetch_failed")
                      /\ UNCHANGED running
    /\ view' = NoView
    /\ UNCHANGED <<recent, stashes, dropped, auth, commits, head, refs, originHead, upstream,
                   index, workdir, remoteRefs>>

\* main.rs:993-1089 with the commit ids read at main.rs:976 and 985.
\* find_reference("HEAD") (main.rs:1045) reads HEAD as it is now, and
\* set_target replaces the value it read.  git2::Repository::commit with
\* update_ref: "the first parent must be the tip of this branch".
PullMerge(branch_name, remote_branch_oid, local_head_oid) ==
    IF UpToDate(remote_branch_oid, local_head_oid)
    THEN PullKeep(TRUE, "up_to_date")
    ELSE IF HasUncommittedChanges(index, workdir)
    THEN PullKeep(FALSE, "uncommitted_changes")
    ELSE IF IsFastForward(local_head_oid, remote_branch_oid)
    THEN LET r == SetTargetOfHead(head, remote_branch_oid)
         IN  IF r.ok
             THEN [ok |-> TRUE, outcome |-> "fast_forward",
                   commits |-> commits, head |-> r.head, refs |-> refs]
             ELSE [ok |-> FALSE, outcome |-> "fast_forward_failed",
                   commits |-> commits, head |-> r.head, refs |-> refs]
    ELSE LET merge_index == MergeCommits(local_head_oid, remote_branch_oid)
             merge_tree == IndexWriteTree(merge_index)
         IN  IF ~merge_tree.ok THEN PullKeep(FALSE, "write_merge_tree_failed")
             ELSE IF HeadOid # local_head_oid
             THEN PullKeep(FALSE, "create_merge_commit_failed")
             ELSE LET c == CommitToHead(head, refs, commits,
                               MergeMessage(branch_name), merge_tree.tree,
                               <<local_head_oid, remote_branch_oid>>)
                  IN  [ok |-> TRUE, outcome |-> "merged",
                       commits |-> c.commits, head |-> c.head, refs |-> c.refs]

\* main.rs:993-1089: the rest of a pull that has fetched.
pull_changes_merge ==
    /\ running.pull_changes.pc = "fetched"
    /\ LET f == running.pull_changes
           r == PullMerge(f.branch_name, f.remote_branch_oid, f.local_head_oid)
       IN  /\ Len(r.commits) <= MaxCommits + 1
           /\ commits' = r.commits
           /\ head' = r.head
           /\ refs' = r.refs
           /\ last' = Result("pull_changes", r.ok, r.outcome)
    /\ running' = [running EXCEPT !.pull_changes = Idle]
    /\ view' = NoView
    /\ UNCHANGED <<recent, stashes, dropped, auth, tracking, originHead, upstream, index,
                   workdir, remoteRefs>>

\* ------------------------------------------------------------------ push

\* remote.push(&[refspec]) with refspec refs/heads/<name>:refs/heads/<name>
\* (main.rs:892-893): it needs the network, a local branch <name> (with HEAD
\* detached <name> is "HEAD", which names no branch) and, the refspec having no
\* leading '+', a remote branch that is an ancestor of the local one.
PushSucceeds(name, netOk, rs, rr) ==
    /\ netOk
    /\ name \in Branches
    /\ rs[name] # NoCommit
    /\ rr[name] = NoCommit \/ IsAncestor(rr[name], rs[name])

\* git2::Branch::upstream: the remote-tracking branch the configuration of the
\* branch names; an error when none is configured or the reference it names
\* does not exist.  The tracking refs of the remote "fork" are not modelled:
\* they exist whenever the configuration names them.
HasUpstream(b, up, tr) ==
    \/ up[b] = "fork"
    \/ up[b] = "origin" /\ tr[b] # NoCommit

\* An upstream step that sets origin/<branch> whatever the branch tracks.
push_changes_set_upstream_Always(name, up, tr) ==
    IF name \in Branches /\ refs[name] # NoCommit
    THEN [up EXCEPT ![name] = "origin"]
    ELSE up

\* main.rs:901-907, push_changes: the upstream step after a successful push.
\*   if let Ok(mut branch) = repo.find_branch(branch_name, Local) {
\*       if branch.upstream().is_err() { branch.set_upstream(Some("origin/<b>")) } }
push_changes_set_upstream(name, up, tr) ==
    IF name \in Branches /\ refs[name] # NoCommit
    THEN IF ~HasUpstream(name, up, tr) THEN [up EXCEPT ![name] = "origin"] ELSE up
    ELSE up

\* main.rs:1334-1356, push_changes_with_realtime_logs.
push_changes_with_realtime_logs_set_upstream(name, up, tr) ==
    IF name \in Branches /\ refs[name] # NoCommit
    THEN IF ~HasUpstream(name, up, tr) THEN [up EXCEPT ![name] = "origin"] ELSE up
    ELSE up

\* main.rs:1512-1525, push_changes_with_logs.
push_changes_with_logs_set_upstream(name, up, tr) ==
    IF name \in Branches /\ refs[name] # NoCommit
    THEN IF ~HasUpstream(name, up, tr) THEN [up EXCEPT ![name] = "origin"] ELSE up
    ELSE up

\* A successful push leaves the remote branch, and the remote-tracking ref of
\* it (git_remote_push updates the tips), at the local branch.
PushedRefs(name, r) == [r EXCEPT ![name] = refs[name]]

\* The return site of a push, and the log line of its upstream step
\* (main.rs:1346 "已设置上游分支", main.rs:1353 "上游分支已存在").
PushOutcome(pushed, upstreamSet) ==
    IF ~pushed THEN "push_failed"
    ELSE IF upstreamSet THEN "pushed_upstream_set" ELSE "pushed"

\* main.rs:832-911
push_changes ==
    \E netOk \in BOOLEAN :
        LET name == BranchName(head)
            pushed == PushSucceeds(name, netOk, refs, remoteRefs)
        IN  /\ remoteRefs' = IF pushed THEN PushedRefs(name, remoteRefs) ELSE remoteRefs
            /\ tracking' = IF pushed THEN PushedRefs(name, tracking) ELSE tracking
            /\ upstream' = IF pushed
                           THEN push_changes_set_upstream(name, upstream, tracking')
                           ELSE upstream
            /\ last' = Result("push_changes", pushed,
                              PushOutcome(pushed, upstream' # upstream))
            /\ view' = NoView
            /\ UNCHANGED <<running, recent, stashes, dropped, auth, commits, head, refs, originHead, index, workdir>>

\* main.rs:1187-1410
push_changes_with_realtime_logs ==
    \E netOk \in BOOLEAN :
        LET name == BranchName(head)
            pushed == PushSucceeds(name, netOk, refs, remoteRefs)
        IN  /\ remoteRefs' = IF pushed THEN PushedRefs(name, remoteRefs) ELSE remoteRefs
            /\ tracking' = IF pushed THEN PushedRefs(name, tracking) ELSE tracking
            /\ upstream' = IF pushed
                           THEN push_changes_with_realtime_logs_set_upstream(
                                    name, upstream, tracking')
                           ELSE upstream
            /\ last' = Result("push_changes_with_realtime_logs", pushed,
                              PushOutcome(pushed, upstream' # upstream))
            /\ view' = NoView
            /\ UNCHANGED <<running, recent, stashes, dropped, auth, commits, head, refs, originHead, index, workdir>>

\* main.rs:1414-1543
push_changes_with_logs ==
    \E netOk \in BOOLEAN :
        LET name == BranchName(head)
            pushed == PushSucceeds(name, netOk, refs, remoteRefs)
        IN  /\ remoteRefs' = IF pushed THEN PushedRefs(name, remoteRefs) ELSE remoteRefs
            /\ tracking' = IF pushed THEN PushedRefs(name, tracking) ELSE tracking
            /\ upstream' = IF pushed
                           THEN push_changes_with_logs_set_upstream(
                                    name, upstream, tracking')
                           ELSE upstream
            /\ last' = Result("push_changes_with_logs", pushed,
                              PushOutcome(pushed, upstream' # upstream))
            /\ view' = NoView
            /\ UNCHANGED <<running, recent, stashes, dropped, auth, commits, head, refs, originHead, index, workdir>>

\* -------------------------------------------------------------- checkout

\* git2::Repository::checkout_tree(&object, None): the default strategy is
\* GIT_CHECKOUT_SAFE, "allow safe updates that cannot overwrite uncommitted
\* data. If the uncommitted changes don't conflict with the checked out
\* files, the checkout will still proceed, leaving the changes intact."  A
\* path that differs between HEAD and the target is updated when the working
\* tree holds the content of HEAD (or already that of the target); otherwise
\* the checkout is refused as a whole.  Whether a change that is staged only,
\* or a file of the working tree equal to one the target adds, counts as
\* uncommitted data in the way is left to the library: strict is its answer.
CheckoutConflicts(target, strict) ==
    {p \in Paths :
        /\ TreeOf(target)[p] # TreeOf(HeadOid)[p]
        /\ \/ workdir[p] \notin {TreeOf(HeadOid)[p], TreeOf(target)[p]}
           \/ strict /\ index[p] \notin {TreeOf(HeadOid)[p], TreeOf(target)[p]}
           \/ strict /\ TreeOf(HeadOid)[p] = 0 /\ workdir[p] # 0}

\* A checkout that writes no file.
CheckoutTree_WritesNothing(target, t) == t

\* The paths that differ between HEAD and the target get the content of the
\* target; the others are left as they are, uncommitted changes included.
CheckoutTree(target, t) ==
    [p \in Paths |-> IF TreeOf(target)[p] # TreeOf(HeadOid)[p]
                     THEN TreeOf(target)[p] ELSE t[p]]

\* main.rs:419-438: revparse_ext, checkout_tree, then set_head(reference) when
\* the name is a reference and set_head_detached(commit) otherwise.
Checkout(target, newHead, strict) ==
    IF CheckoutConflicts(target, strict) # {}
    THEN /\ last' = Result("checkout_branch", FALSE, "checkout_tree_failed")
         /\ view' = NoView
         /\ UNCHANGED <<running, recent, stashes, dropped, auth, commits, head, refs, tracking, originHead, upstream,
                        index, workdir, remoteRefs>>
    ELSE /\ index' = CheckoutTree(target, index)
         /\ workdir' = CheckoutTree(target, workdir)
         /\ head' = newHead
         /\ last' = Result("checkout_branch", TRUE, "checked_out")
         /\ view' = NoView
         /\ UNCHANGED <<running, recent, stashes, dropped, auth, commits, refs, tracking, originHead, upstream, remoteRefs>>

\* The commits repo.revparse_ext can find (main.rs:423): those the repository
\* has written itself and those it has fetched, which its remote-tracking
\* refs reach.  A commit that only the remote has is no object of it.
LocalCommits ==
    {c \in 1..Len(commits) :
        \/ commits[c].message # <<"remote">>
        \/ \E b \in Branches : tracking[b] # NoCommit /\ IsAncestor(c, tracking[b])}

\* checkout_branch(<branch name>) or checkout_branch(<commit id>)
checkout_branch ==
    \/ \E b \in DOMAIN refs, strict \in BOOLEAN :
          refs[b] # NoCommit /\ Checkout(refs[b], Symbolic(b), strict)
    \/ \E c \in LocalCommits, strict \in BOOLEAN :
          Checkout(c, Detached(c), strict)

\* -------------------------------------------------- get_workspace_status

\* main.rs:776-790: repo.reset_default(Some(HEAD), [path]) sets the index
\* entry of the path to that of the HEAD tree, removing it when HEAD has none.
\* repo.revparse_single("HEAD") is an Err on a branch that has no commit yet.
unstage_file(p) ==
    /\ IF HeadOid = NoCommit
       THEN /\ last' = Result("unstage_file", FALSE, "head_missing")
            /\ UNCHANGED index
       ELSE /\ index' = [index EXCEPT ![p] = TreeOf(HeadOid)[p]]
            /\ last' = Result("unstage_file", TRUE, "unstaged")
    /\ view' = NoView
    /\ UNCHANGED <<running, recent, stashes, dropped, auth, commits, head, refs, tracking, originHead, upstream, workdir,
                   remoteRefs>>

\* The paths in the order repo.statuses and the diff list them.
PathOrder == <<"a">>

\* git2::Status of one path, from its content in the HEAD tree (h), the index
\* (i) and the working tree (w); 0 is an absent file.  repo.statuses with
\* include_untracked, without ignored and unmodified entries (main.rs:608-611).
StatusFlags(h, i, w) ==
    (IF h = 0 /\ i # 0 THEN {"INDEX_NEW"} ELSE {})
    \cup (IF h # 0 /\ i # 0 /\ h # i THEN {"INDEX_MODIFIED"} ELSE {})
    \cup (IF h # 0 /\ i = 0 THEN {"INDEX_DELETED"} ELSE {})
    \cup (IF i = 0 /\ w # 0 THEN {"WT_NEW"} ELSE {})
    \cup (IF i # 0 /\ w # 0 /\ i # w THEN {"WT_MODIFIED"} ELSE {})
    \cup (IF i # 0 /\ w = 0 THEN {"WT_DELETED"} ELSE {})

\* A diff that sees no change of content.
IndexToWorkdirDelta_NoModified(i, w) ==
    IF i = 0 /\ w # 0 THEN "Untracked"
    ELSE IF i # 0 /\ w = 0 THEN "Deleted"
    ELSE "Unmodified"

\* git2::Delta of one path in repo.diff_index_to_workdir(Some(&index), opts)
\* with include_untracked and recurse_untracked_dirs (main.rs:705-709).
IndexToWorkdirDelta(i, w) ==
    IF i = 0 /\ w # 0 THEN "Untracked"
    ELSE IF i # 0 /\ w = 0 THEN "Deleted"
    ELSE IF i # 0 /\ w # 0 /\ i # w THEN "Modified"
    ELSE "Unmodified"

\* A lookup that finds every path in the tree of HEAD.
path_tracked_in_head_Always(tree, p) == TRUE

\* main.rs:78-94: whether the tree of HEAD has the path.
path_tracked_in_head(tree, p) == tree[p] # 0

\* FileChange { path, status, .. }  (main.rs:31-37)
FileChange(p, status) == [path |-> p, status |-> status]

\* untracked_files.contains(&file_path)
ContainsPath(list, p) == \E k \in 1..Len(list) : list[k] = p

\* unstaged_files.iter().any(|f| f.path == file_path)
AnyFileChange(list, p) == \E k \in 1..Len(list) : list[k].path = p

NoFiles == [staged_files |-> <<>>, unstaged_files |-> <<>>, untracked_files |-> <<>>]

\* main.rs:619-651: the staged part of one status entry.
StagedOfEntry(r, p, status) ==
    IF "INDEX_NEW" \in status
    THEN [r EXCEPT !.staged_files = Append(@, FileChange(p, "added"))]
    ELSE IF "INDEX_MODIFIED" \in status
    THEN [r EXCEPT !.staged_files = Append(@, FileChange(p, "modified"))]
    ELSE IF "INDEX_DELETED" \in status
    THEN [r EXCEPT !.staged_files = Append(@, FileChange(p, "deleted"))]
    ELSE r

\* A working-tree part that reports every new file of a path of HEAD as
\* modified, its deletion staged or not.
WorktreeOfEntry_NoTieBreak(r, p, status, tracked) ==
    IF "WT_NEW" \in status
    THEN IF tracked
         THEN [r EXCEPT !.unstaged_files = Append(@, FileChange(p, "modified"))]
         ELSE [r EXCEPT !.untracked_files = Append(@, p)]
    ELSE IF "WT_MODIFIED" \in status /\ "INDEX_MODIFIED" \notin status
    THEN [r EXCEPT !.unstaged_files = Append(@, FileChange(p, "modified"))]
    ELSE IF "WT_DELETED" \in status
    THEN [r EXCEPT !.unstaged_files = Append(@, FileChange(p, "deleted"))]
    ELSE r

\* main.rs:653-702: the working-tree part of one status entry.
WorktreeOfEntry(r, p, status, tracked) ==
    IF "WT_NEW" \in status
    THEN IF tracked /\ "INDEX_DELETED" \in status
         THEN IF ~ContainsPath(r.untracked_files, p)
              THEN [r EXCEPT !.untracked_files = Append(@, p)]
              ELSE r
         ELSE IF tracked
         THEN IF ~AnyFileChange(r.unstaged_files, p)
              THEN [r EXCEPT !.unstaged_files = Append(@, FileChange(p, "modified"))]
              ELSE r
         ELSE IF ~ContainsPath(r.untracked_files, p)
         THEN [r EXCEPT !.untracked_files = Append(@, p)]
         ELSE r
    ELSE IF "WT_MODIFIED" \in status
    THEN IF "INDEX_MODIFIED" \notin status
         THEN [r EXCEPT !.unstaged_files = Append(@, FileChange(p, "modified"))]
         ELSE r
    ELSE IF "WT_DELETED" \in status
    THEN IF "INDEX_DELETED" \notin status
         THEN [r EXCEPT !.unstaged_files = Append(@, FileChange(p, "deleted"))]
         ELSE r
    ELSE r

\* main.rs:615-703: the loop over the status entries, paths k.. of PathOrder.
RECURSIVE StatusPass(_, _, _, _, _)
StatusPass(r, k, tree, idx, wd) ==
    IF k > Len(PathOrder) THEN r
    ELSE LET p == PathOrder[k]
             status == StatusFlags(tree[p], idx[p], wd[p])
             r1 == IF status = {} THEN r
                   ELSE WorktreeOfEntry(StagedOfEntry(r, p, status), p, status,
                                        path_tracked_in_head(tree, p))
         IN  StatusPass(r1, k + 1, tree, idx, wd)

\* A callback that adds its path whether or not the list has it.
DeltaOfEntry_NoGuard(r, p, delta) ==
    IF delta = "Untracked"
    THEN [r EXCEPT !.untracked_files = Append(@, p)]
    ELSE [r EXCEPT !.unstaged_files =
                      Append(@, FileChange(p, IF delta = "Deleted" THEN "deleted"
                                              ELSE "modified"))]

\* main.rs:713-744: the callback of diff.foreach for one delta.
DeltaOfEntry(r, p, delta) ==
    IF delta = "Untracked"
    THEN IF ~ContainsPath(r.untracked_files, p)
         THEN [r EXCEPT !.untracked_files = Append(@, p)]
         ELSE r
    ELSE IF ~AnyFileChange(r.unstaged_files, p)
    THEN [r EXCEPT !.unstaged_files =
                      Append(@, FileChange(p, IF delta = "Deleted" THEN "deleted"
                                              ELSE "modified"))]
    ELSE r

\* main.rs:705-749: the loop over the deltas of the index-to-workdir diff.
RECURSIVE DiffPass(_, _, _, _)
DiffPass(r, k, idx, wd) ==
    IF k > Len(PathOrder) THEN r
    ELSE LET p == PathOrder[k]
             delta == IndexToWorkdirDelta(idx[p], wd[p])
             r1 == IF delta = "Unmodified" THEN r ELSE DeltaOfEntry(r, p, delta)
         IN  DiffPass(r1, k + 1, idx, wd)

\* main.rs:598-756: the three lists status returns for a repository with the
\* given HEAD tree, index and working tree.
WorkspaceStatus(tree, idx, wd) ==
    DiffPass(StatusPass(NoFiles, 1, tree, idx, wd), 1, idx, wd)

\* A status that refreshes the index from the working tree as it reads.
get_workspace_status_Refreshes ==
    /\ view' = [op |-> "get_workspace_status",
                files |-> WorkspaceStatus(TreeOf(HeadOid), index, workdir)]
    /\ index' = workdir
    /\ UNCHANGED <<running, recent, stashes, dropped, commits, head, refs, tracking, originHead, upstream,
                   workdir, remoteRefs, last, auth>>

\* main.rs:598-756
get_workspace_status ==
    /\ view' = [op |-> "get_workspace_status",
                files |-> WorkspaceStatus(TreeOf(HeadOid), index, workdir)]
    /\ UNCHANGED <<running, recent, stashes, dropped, commits, head, refs, tracking, originHead, upstream, index,
                   workdir, remoteRefs, last, auth>>

\* ------------------------------------- get_workspace_status, step by step

\* The commands are async fns that tauri runs on its worker threads
\* (main.rs:2318-2354); none takes a lock, so a command that is between two of
\* its calls can find the repository changed by another.  A status query reads
\* the repository three times: repo.statuses (main.rs:614), path_tracked_in_head
\* for the entries of the loop (main.rs:656, 660, which opens HEAD anew) and
\* repo.diff_index_to_workdir (main.rs:708).

\* git2::Statuses: the entries repo.statuses collected, the flags of each path.
Statuses(tree, idx, wd) ==
    [p \in Paths |-> StatusFlags(tree[p], idx[p], wd[p])]

\* main.rs:617-702, the loop over collected entries, paths k.. of PathOrder;
\* tree is the tree of HEAD as path_tracked_in_head finds it.
RECURSIVE StatusEntries(_, _, _, _)
StatusEntries(r, k, statuses, tree) ==
    IF k > Len(PathOrder) THEN r
    ELSE LET p == PathOrder[k]
             status == statuses[p]
             r1 == IF status = {} THEN r
                   ELSE WorktreeOfEntry(StagedOfEntry(r, p, status), p, status,
                                        path_tracked_in_head(tree, p))
         IN  StatusEntries(r1, k + 1, statuses, tree)

\* main.rs:600-615: the query opens the repository and collects the statuses.
\* began records the repository the query found.
get_workspace_status_statuses ==
    /\ running.get_workspace_status.pc = "idle"
    /\ running' = [running EXCEPT !.get_workspace_status =
                      [pc |-> "statuses",
                       statuses |-> Statuses(TreeOf(HeadOid), index, workdir),
                       began |-> [tree |-> TreeOf(HeadOid), index |-> index,
                                  workdir |-> workdir]]]
    /\ UNCHANGED <<recent, stashes, dropped, commits, head, refs, tracking, originHead,
                   upstream, index, workdir, remoteRefs, last, auth, view>>

\* main.rs:617-702: the loop over the entries.
get_workspace_status_entries ==
    /\ running.get_workspace_status.pc = "statuses"
    /\ running' = [running EXCEPT !.get_workspace_status =
                      [pc |-> "entries",
                       files |-> StatusEntries(NoFiles, 1,
                                     running.get_workspace_status.statuses,
                                     TreeOf(HeadOid)),
                       began |-> running.get_workspace_status.began]]
    /\ UNCHANGED <<recent, stashes, dropped, commits, head, refs, tracking, originHead,
                   upstream, index, workdir, remoteRefs, last, auth, view>>

\* main.rs:704-755: the index-to-workdir diff, and the return.
get_workspace_status_diff ==
    /\ running.get_workspace_status.pc = "entries"
    /\ view' = [op |-> "get_workspace_status",
                files |-> DiffPass(running.get_workspace_status.files, 1,
                                   index, workdir)]
    /\ running' = [running EXCEPT !.get_workspace_status = Idle]
    /\ UNCHANGED <<recent, stashes, dropped, commits, head, refs, tracking, originHead,
                   upstream, index, workdir, remoteRefs, last, auth>>

\* ------------------------------------------------- the recent repositories

\* main.rs:152-153  if repos.len() > 10 { repos.truncate(10); }
MaxRecentRepos == 10

\* The paths a caller passes: a directory and the name of the repository in it.
RepoPaths == {<<"/", n>> : n \in 1..(MaxRecentRepos + 1)}

\* The path of the repository of the model.
RepoPath == <<"/", Len(<<"init">>)>>

\* main.rs:134-138  Path::new(&path).file_name(): the last component.
FileName(path) == path[Len(path)]

\* RecentRepo { path, name, last_opened }  (main.rs:60-64, 144-148), without
\* last_opened, the time of the save, which no code reads.
RecentRepo(path) == [path |-> path, name |-> FileName(path)]

\* main.rs:141  repos.retain(|repo| repo.path != path);
Retain(repos, path) == SelectSeq(repos, LAMBDA repo : repo.path # path)

\* main.rs:152-154
Truncate(repos, n) == IF Len(repos) > n THEN SubSeq(repos, 1, n) ELSE repos

\* A save that adds the repository at the end of the list.
SaveRecentRepo_AtEnd(repos, path) ==
    Truncate(Append(Retain(repos, path), RecentRepo(path)), MaxRecentRepos)

\* main.rs:140-154: the list save_recent_repo writes, from the list it read.
SaveRecentRepo(repos, path) ==
    Truncate(<<RecentRepo(path)>> \o Retain(repos, path), MaxRecentRepos)

\* main.rs:116-163.  create_dir_all, read_to_string or fs::write can fail, and
\* then the file is as it was.
save_recent_repo(path) ==
    \E ioOk \in BOOLEAN :
        /\ recent' = IF ioOk THEN SaveRecentRepo(recent, path) ELSE recent
        /\ last' = [op |-> "save_recent_repo", ok |-> ioOk,
                    outcome |-> IF ioOk THEN "saved" ELSE "io_failed",
                    error |-> {}, path |-> path]
        /\ view' = NoView
        /\ UNCHANGED <<running, stashes, dropped, auth, commits, head, refs, tracking,
                       originHead, upstream, index, workdir, remoteRefs>>

\* main.rs:98-112
get_recent_repos ==
    /\ view' = [op |-> "get_recent_repos", repos |-> recent]
    /\ UNCHANGED <<running, recent, stashes, dropped, commits, head, refs, tracking,
                   originHead, upstream, index, workdir, remoteRefs, last, auth>>

\* ------------------------------------------------------ open_repository

\* refs/remotes/fork/<b>: the branches of the remote "fork" as they were
\* fetched when the repository was set up: at the commit of the fork that the
\* store holds, and at the first commit when it holds none.  No command of the
\* program connects to a remote other than origin, so they stay there.
ForkTracking ==
    LET fetched == {c \in 1..Len(commits) : commits[c].message = <<"fork">>}
    IN  [b \in Branches |-> IF fetched = {} THEN Len(<<"init">>)
                            ELSE CHOOSE c \in fetched : TRUE]

\* branch.upstream().ok().and_then(|up| up.get().target())  (main.rs:323):
\* the commit of the upstream branch, NoCommit for None.
UpstreamOid(b, up, tr) ==
    IF ~HasUpstream(b, up, tr) THEN NoCommit
    ELSE IF up[b] = "fork" THEN ForkTracking[b]
    ELSE tr[b]

\* A graph_ahead_behind with its two counts exchanged.
GraphAheadBehind_Swapped(local, up) == <<Behind(local, up), Ahead(local, up)>>

\* repo.graph_ahead_behind(local_oid, upstream_oid)  (main.rs:325)
GraphAheadBehind(local, up) == <<Ahead(local, up), Behind(local, up)>>

\* repo.branches(Some(git2::BranchType::Local))  (main.rs:291): the names of
\* the refs under refs/heads.
LocalBranchNames == {b \in DOMAIN refs : refs[b] # NoCommit}

\* An is_current that marks the branch main whatever HEAD points to.
IsCurrent_Main(branch_name, current_branch) == branch_name = "main"

\* main.rs:303  let is_current = branch_name == current_branch;
IsCurrent(branch_name, current_branch) == branch_name = current_branch

\* main.rs:305-309
BranchInfo(name, is_current) ==
    [name |-> name, is_current |-> is_current, is_remote |-> FALSE]

\* main.rs:284-346: the current branch and the ahead/behind counts of
\* get_repository_info.  repo.find_branch(&current_branch, Local) is an Err
\* when HEAD is detached, its shorthand "HEAD" naming no local branch.
get_repository_info ==
    LET current_branch == BranchName(head)
        found == current_branch \in LocalBranchNames
        local_oid == IF found THEN refs[current_branch] ELSE NoCommit
        upstream_oid == IF found
                        THEN UpstreamOid(current_branch, upstream, tracking)
                        ELSE NoCommit
        counts == IF local_oid # NoCommit /\ upstream_oid # NoCommit
                  THEN GraphAheadBehind(local_oid, upstream_oid)
                  ELSE <<0, 0>>
    IN  [op |-> "open_repository", ok |-> TRUE,
         current_branch |-> current_branch,
         branches |-> {BranchInfo(b, IsCurrent(b, current_branch)) :
                          b \in LocalBranchNames},
         ahead |-> counts[1], behind |-> counts[2]]

\* main.rs:268-281: open_repository returns get_repository_info and records
\* the path in the list of recent repositories; a save that fails is reported
\* on stderr only.
open_repository ==
    /\ view' = get_repository_info
    /\ \E ioOk \in BOOLEAN :
          recent' = IF ioOk THEN SaveRecentRepo(recent, RepoPath) ELSE recent
    /\ UNCHANGED <<running, stashes, dropped, commits, head, refs, tracking, originHead, upstream, index,
                   workdir, remoteRefs, last, auth>>

\* ------------------------------------------------------ the commit history

\* limit.unwrap_or(50), offset.unwrap_or(0)  (main.rs:362-363); None is the
\* Option without a value.
None == <<>>
Some(n) == <<n>>
DefaultLimit == 50
DefaultOffset == 0
UnwrapOr(opt, default) == IF opt = None THEN default ELSE Head(opt)

RECURSIVE RevwalkBelow(_, _)
\* repo.revwalk() with push_head() (main.rs:355-358): the commits reachable
\* from HEAD, each once, in the default order of the walk, newest first.  A
\* commit written later has the greater position in the store.
RevwalkBelow(k, from) ==
    IF k = 0 THEN <<>>
    ELSE (IF k \in Reach(from) THEN <<k>> ELSE <<>>) \o RevwalkBelow(k - 1, from)

Revwalk == RevwalkBelow(Len(commits), HeadOid)

\* main.rs:390-397: the id and the first line of the message of a commit.
CommitInfo(oid) == [id |-> oid, message |-> Head(commits[oid].message)]

RECURSIVE CollectPage_SkipsOneMore(_, _, _, _, _, _, _)
\* A loop that skips one commit more than offset.
CollectPage_SkipsOneMore(walk, k, limit, offset, count, skipped, page) ==
    IF k > Len(walk) THEN page
    ELSE IF skipped <= offset
         THEN CollectPage_SkipsOneMore(walk, k + 1, limit, offset, count, skipped + 1, page)
    ELSE IF count >= limit THEN page
    ELSE CollectPage_SkipsOneMore(walk, k + 1, limit, offset, count + 1, skipped,
                                  Append(page, CommitInfo(walk[k])))

RECURSIVE CollectPage(_, _, _, _, _, _, _)
\* main.rs:367-400: the loop over the walk, at its k-th commit: skip while
\* skipped < offset, stop when count >= limit, collect otherwise.
CollectPage(walk, k, limit, offset, count, skipped, page) ==
    IF k > Len(walk) THEN page
    ELSE IF skipped < offset
         THEN CollectPage(walk, k + 1, limit, offset, count, skipped + 1, page)
    ELSE IF count >= limit THEN page
    ELSE CollectPage(walk, k + 1, limit, offset, count + 1, skipped,
                     Append(page, CommitInfo(walk[k])))

\* main.rs:354-403
get_commit_history_paginated(limit, offset) ==
    CollectPage(Revwalk, 1, UnwrapOr(limit, DefaultLimit),
                UnwrapOr(offset, DefaultOffset), 0, 0, <<>>)

\* main.rs:349-351
get_commit_history ==
    get_commit_history_paginated(Some(DefaultLimit), Some(DefaultOffset))

\* main.rs:406-415: the command returns the page and changes nothing.
get_commits_paginated(limit, offset) ==
    /\ view' = [op |-> "get_commits_paginated", limit |-> limit, offset |-> offset,
                commits |-> get_commit_history_paginated(limit, offset)]
    /\ UNCHANGED <<running, recent, stashes, dropped, commits, head, refs, tracking, originHead,
                   upstream, index, workdir, remoteRefs, last, auth>>

\* ------------------------------------------------------------- the stash

\* The messages a caller gives a stash, and the seconds the clock of the
\* machine shows when a stash is made.  The clock is an input: two commands can
\* run within one second, and the clock can be set back.
Messages == {"wip"}
Times == {1, 2}
FirstSecond == CHOOSE t \in Times : \A u \in Times : t <= u

\* main.rs:2175-2185: the status flags create_stash counts as a change.
StashedFlags ==
    {"WT_NEW", "WT_MODIFIED", "WT_DELETED", "WT_TYPECHANGE", "WT_RENAMED",
     "INDEX_NEW", "INDEX_MODIFIED", "INDEX_DELETED"}

\* A check that finds a change in every repository.
HasChanges_Always(tree, idx, wd) == TRUE

\* main.rs:2167-2186: repo.statuses(None) has an entry with one of the flags.
HasChanges(tree, idx, wd) ==
    \E p \in Paths : StatusFlags(tree[p], idx[p], wd[p]) \cap StashedFlags # {}

\* The paths git knows: those of the HEAD tree and those of the index.  With
\* its default flags stash_save leaves untracked files alone ("All untracked
\* files are also stashed" needs INCLUDE_UNTRACKED).
TrackedPaths(tree, idx) == {p \in Paths : tree[p] # 0 \/ idx[p] # 0}

\* git2::Repository::stash_save(&signature, &message, None): "Save the local
\* modifications to a new stash"; an error when no tracked path has one.
LocalModifications(tree, idx, wd) ==
    {p \in TrackedPaths(tree, idx) : idx[p] # tree[p] \/ wd[p] # idx[p]}

\* The branch a stash commit names in its message: "On <branch>: <message>",
\* with "(no branch)" when HEAD is detached.
StashBranch(h) == IF h.symbolic THEN h.branch ELSE "(no branch)"

\* A stash commit that leaves the time out of what it records.
StashCommit_NoTime(base, h, idx, wd, message, now) ==
    [base |-> base, index |-> idx,
     workdir |-> [p \in Paths |-> IF p \in TrackedPaths(TreeOf(base), idx)
                                   THEN wd[p] ELSE 0],
     branch |-> StashBranch(h), message |-> message, time |-> FirstSecond]

\* The stash commit stash_save writes (main.rs:2195): it records the commit of
\* HEAD, the tree of the index, the tree of the tracked files of the working
\* tree, the branch and the message, and the time of its signature.  Its id
\* is the hash of what it records: two stash commits with the same id are the
\* same commit, and the same content at the same second is the same commit.
StashCommit(base, h, idx, wd, message, now) ==
    [base |-> base, index |-> idx,
     workdir |-> [p \in Paths |-> IF p \in TrackedPaths(TreeOf(base), idx)
                                   THEN wd[p] ELSE 0],
     branch |-> StashBranch(h), message |-> message, time |-> now]

\* stash_save then sets the index and the tracked files of the working tree
\* back to the HEAD commit.
ResetToHead(tree, idx, wd) ==
    [p \in Paths |-> IF p \in TrackedPaths(tree, idx) THEN tree[p] ELSE wd[p]]

\* A reflog of refs/stash that takes the new commit at its end.
StashPush_AtEnd(list, oid, logged) ==
    IF list # <<>> /\ Head(list) = oid /\ ~logged THEN list ELSE Append(list, oid)

\* stash_save sets refs/stash to the new commit and logs it: the reflog of
\* refs/stash, newest first, is the stash list.  Whether a ref that already
\* has the value is logged again is left to the library: logged is its answer.
StashPush(list, oid, logged) ==
    IF list # <<>> /\ Head(list) = oid /\ ~logged THEN list ELSE <<oid>> \o list

\* main.rs:2133-2204
create_stash(message, now) ==
    LET tree == TreeOf(HeadOid)
        oid == StashCommit(HeadOid, head, index, workdir, message, now)
    IN  /\ Len(stashes) < MaxStashes
        /\ view' = NoView
        /\ IF ~HasChanges(tree, index, workdir)
           THEN /\ last' = Result("create_stash", FALSE, "no_changes")
                /\ UNCHANGED <<stashes, index, workdir>>
           ELSE IF LocalModifications(tree, index, workdir) = {}
           THEN /\ last' = Result("create_stash", FALSE, "stash_save_failed")
                /\ UNCHANGED <<stashes, index, workdir>>
           ELSE /\ \E logged \in BOOLEAN : stashes' = StashPush(stashes, oid, logged)
                /\ index' = tree
                /\ workdir' = ResetToHead(tree, index, workdir)
                /\ last' = [op |-> "create_stash", ok |-> TRUE, outcome |-> "created",
                            error |-> {}, id |-> oid, message |-> message, now |-> now,
                            before |-> [index |-> index, workdir |-> workdir]]
        /\ UNCHANGED <<running, recent, dropped, auth, commits, head, refs, tracking, originHead,
                       upstream, remoteRefs>>

\* oid.to_string() (main.rs:2105, 2217, 2302): the id of a stash commit as a
\* string of digits.  Different commits have different strings; the strings
\* of two commits can begin with the same digits.
OidString(oid) ==
    <<oid.time, oid.workdir, oid.index, <<oid.base, oid.branch, oid.message>>>>

\* oid_str.starts_with(&stash_id)
StartsWith(s, prefix) ==
    Len(prefix) <= Len(s) /\ SubSeq(s, 1, Len(prefix)) = prefix

\* The message of a stash commit, as stash_foreach passes it.
StashMessage(oid) == <<"On", oid.branch, oid.message>>

\* The first of a set of positions of the stash list, 0 when there is none:
\* stash_foreach goes through the list from position 0 and the callback stops
\* it at the first entry it accepts.
FirstOf(positions) ==
    IF positions = {} THEN 0 ELSE CHOOSE k \in positions : \A j \in positions : k <= j

\* main.rs:2216-2226: the entry apply_stash takes, by its full id or by the
\* first digits of it.
FindStashByPrefix(list, stash_id) ==
    FirstOf({k \in 1..Len(list) :
                \/ StartsWith(OidString(list[k]), stash_id)
                       /\ Len(stash_id) = Len(OidString(list[k]))
                \/ StartsWith(OidString(list[k]), stash_id)})

\* main.rs:2232-2236: "<id>: <message>" of every entry of the list.
AvailableStashes(list) ==
    [k \in 1..Len(list) |-> <<OidString(list[k]), StashMessage(list[k])>>]

\* What the library is free to answer during a stash_apply: whether a file of
\* the working tree that already has the content to write is in the way
\* (strict), whether the error of a conflict of index entries says "conflict"
\* (told), and what is written for a path both sides changed (marks).
LibraryAnswers(s) ==
    LET clash == \E p \in Paths :
                    \/ MergeConflicts(TreeOf(s.base)[p], index[p], s.index[p])
                    \/ MergeConflicts(TreeOf(s.base)[p], index[p], s.workdir[p])
    IN  [strict : BOOLEAN,
         told : IF clash THEN BOOLEAN ELSE {FALSE},
         marks : IF clash THEN Trees ELSE {s.workdir}]

\* git2::Repository::stash_apply(index, opts): "Apply a single stashed state
\* from the stash list."  It is refused while the index differs from the tree
\* of HEAD ("uncommitted changes exist in the index").  With
\* reinstantiate_index the index changes of the stash are merged into the
\* index, the tree of the stash's base commit being the ancestor; without it,
\* only the files the stash adds are staged.  The changes of the working tree
\* are merged in the same way and checked out with the safe strategy, the
\* index being the baseline: a path to be written whose file differs from the
\* baseline is a conflict ("conflicts prevent checkout").  The result names
\* the phrases of the error message that apply_stash looks for.
StashApply(s, reinstate, lib) ==
    LET base == TreeOf(s.base)
        keep == [ok |-> FALSE, phrases |-> {}, index |-> index, workdir |-> workdir]
        index_conflicts ==
            {p \in Paths : MergeConflicts(base[p], index[p], s.index[p])}
        unstashed ==
            [p \in Paths |->
                IF reinstate THEN MergeEntry(base[p], index[p], s.index[p])
                ELSE IF base[p] = 0 /\ s.workdir[p] # 0
                     THEN MergeEntry(base[p], index[p], s.workdir[p])
                     ELSE index[p]]
        modified ==
            [p \in Paths |->
                IF MergeConflicts(base[p], index[p], s.workdir[p]) THEN lib.marks[p]
                ELSE MergeEntry(base[p], index[p], s.workdir[p])]
        blocked ==
            {p \in Paths :
                /\ modified[p] # index[p]
                /\ \/ workdir[p] \notin {index[p], modified[p]}
                   \/ lib.strict /\ workdir[p] # index[p]}
    IN  IF index # TreeOf(HeadOid) THEN keep
        ELSE IF reinstate /\ index_conflicts # {}
        THEN [keep EXCEPT !.phrases = IF lib.told THEN {"conflict"} ELSE {}]
        ELSE IF blocked # {} THEN [keep EXCEPT !.phrases = {"conflict"}]
        ELSE [ok |-> TRUE, phrases |-> {}, index |-> unstashed,
              workdir |-> [p \in Paths |-> IF modified[p] # index[p]
                                            THEN modified[p] ELSE workdir[p]]]

\* main.rs:2263, 2279
SaysAlreadyApplied(phrases) ==
    "already applied" \in phrases \/ "nothing to commit" \in phrases

\* An apply that takes the entry off the list, as a pop does.
StashListAfterApply_Pops(list, k) ==
    SubSeq(list, 1, k - 1) \o SubSeq(list, k + 1, Len(list))

\* main.rs:2250, 2271: repo.stash_apply, not stash_pop: the list is left alone.
StashListAfterApply(list, k) == list

\* An apply_stash whose first attempt leaves reinstantiate_index out.
ApplyAttempts_NoIndex(s, lib) ==
    LET first == StashApply(s, FALSE, lib)
        applied(r) == [ok |-> TRUE, outcome |-> "applied",
                       index |-> r.index, workdir |-> r.workdir]
        kept(ok, outcome) == [ok |-> ok, outcome |-> outcome,
                              index |-> index, workdir |-> workdir]
    IN  IF first.ok THEN applied(first)
        ELSE IF "conflict" \in first.phrases THEN kept(FALSE, "conflict")
        ELSE kept(FALSE, "apply_failed")

\* main.rs:2250-2290: the first attempt, with the index reinstated; on an
\* error that names neither an earlier application nor a conflict, the second
\* attempt, without options.
ApplyAttempts(s, lib) ==
    LET first == StashApply(s, TRUE, lib)
        second == StashApply(s, FALSE, lib)
        applied(r) == [ok |-> TRUE, outcome |-> "applied",
                       index |-> r.index, workdir |-> r.workdir]
        kept(ok, outcome) == [ok |-> ok, outcome |-> outcome,
                              index |-> index, workdir |-> workdir]
    IN  IF first.ok THEN applied(first)
        ELSE IF SaysAlreadyApplied(first.phrases) THEN kept(TRUE, "already_applied")
        ELSE IF "conflict" \in first.phrases THEN kept(FALSE, "conflict")
        ELSE IF second.ok THEN applied(second)
        ELSE IF SaysAlreadyApplied(second.phrases) THEN kept(TRUE, "already_applied")
        ELSE kept(FALSE, "apply_failed")

\* main.rs:2208-2291
apply_stash_with(stash_id) ==
    LET k == FindStashByPrefix(stashes, stash_id)
    IN  /\ view' = NoView
        /\ IF k = 0
           THEN /\ last' = [op |-> "apply_stash", ok |-> FALSE,
                            outcome |-> "stash_not_found", error |-> {},
                            stash_id |-> stash_id, applied |-> 0,
                            available |-> AvailableStashes(stashes)]
                /\ UNCHANGED <<stashes, index, workdir>>
           ELSE \E lib \in LibraryAnswers(stashes[k]) :
                    LET r == ApplyAttempts(stashes[k], lib)
                    IN  /\ index' = r.index
                        /\ workdir' = r.workdir
                        /\ stashes' = StashListAfterApply(stashes, k)
                        /\ last' = [op |-> "apply_stash", ok |-> r.ok,
                                    outcome |-> r.outcome, error |-> {},
                                    stash_id |-> stash_id, applied |-> k,
                                    available |-> <<>>]
        /\ UNCHANGED <<running, recent, dropped, auth, commits, head, refs, tracking, originHead,
                       upstream, remoteRefs>>

\* main.rs:2301-2310: the entry delete_stash takes, by its full id.
FindStashById(list, stash_id) ==
    FirstOf({k \in 1..Len(list) :
                StartsWith(OidString(list[k]), stash_id)
                    /\ Len(stash_id) = Len(OidString(list[k]))})

\* git2::Repository::stash_drop(index): "Remove a single stashed state from
\* the stash list."
StashDrop(list, k) == SubSeq(list, 1, k - 1) \o SubSeq(list, k + 1, Len(list))

\* main.rs:2295-2316
delete_stash_with(stash_id) ==
    LET k == FindStashById(stashes, stash_id)
    IN  /\ view' = NoView
        /\ IF k = 0
           THEN /\ last' = [op |-> "delete_stash", ok |-> FALSE,
                            outcome |-> "stash_not_found", error |-> {},
                            stash_id |-> stash_id]
                /\ UNCHANGED <<stashes, dropped>>
           ELSE /\ Cardinality(dropped \cup {stashes[k]}) <= MaxDrops
                /\ stashes' = StashDrop(stashes, k)
                /\ dropped' = dropped \cup {stashes[k]}
                /\ last' = [op |-> "delete_stash", ok |-> TRUE,
                            outcome |-> "deleted", error |-> {},
                            stash_id |-> stash_id]
        /\ UNCHANGED <<running, recent, auth, commits, head, refs, tracking, originHead,
                       upstream, index, workdir, remoteRefs>>

\* StashInfo { id, message, timestamp, branch }  (main.rs:46-52, 2120-2125)
StashInfo(id, message, timestamp, branch) ==
    [id |-> id, message |-> message, timestamp |-> timestamp, branch |-> branch]

\* main.rs:2084-2129: every entry carries the shorthand of HEAD as its branch.
get_stash_list ==
    LET current_branch == BranchName(head)
    IN  /\ view' = [op |-> "get_stash_list",
                    stashes |-> [k \in 1..Len(stashes) |->
                                    StashInfo(OidString(stashes[k]),
                                              StashMessage(stashes[k]),
                                              stashes[k].time, current_branch)]]
        /\ UNCHANGED <<running, recent, stashes, dropped, commits, head, refs, tracking, originHead,
                       upstream, index, workdir, remoteRefs, last, auth>>

\* The ids a caller can name: the ids the program has shown, whole or cut to
\* their first digit, and the empty string.
StashIdInputs ==
    {<<>>} \cup UNION {{SubSeq(OidString(s), 1, n) : n \in {1, Len(OidString(s))}} :
                          s \in {stashes[k] : k \in 1..Len(stashes)} \cup dropped}

\* apply_stash and delete_stash, called with an id a caller can name.
apply_stash == \E stash_id \in StashIdInputs : apply_stash_with(stash_id)

delete_stash == \E stash_id \in StashIdInputs : delete_stash_with(stash_id)

\* ------------------------------------------------ credential negotiation

\* The credential strategies of the callbacks, in the order of the code.
Strategies == {"default", "ssh_agent", "credential_helper"}

\* The outcome of a credentials callback: the strategies it attempted, in
\* order, and whether it returned a credential (Ok) or an error.
Attempt(tried, ok) == [tried |-> tried, ok |-> ok]

\* let cfg = repo.config().ok() (main.rs:860, 943, 1136, 1289, 1476, 1722):
\* the configuration of the repository that Repository::open has loaded.
RepoConfig == TRUE

\* main.rs:862-887, the callback of push_changes.  works is the set of
\* strategies that yield a credential when attempted: git2::Cred::default(),
\* git2::Cred::ssh_key_from_agent(..), git2::Cred::credential_helper(cfg, ..).
push_changes_credentials(allowed, cfg, works) ==
    IF "DEFAULT" \in allowed
    THEN Attempt(<<"default">>, "default" \in works)
    ELSE IF "SSH_KEY" \in allowed
    THEN Attempt(<<"ssh_agent">>, "ssh_agent" \in works)
    ELSE IF "USER_PASS_PLAINTEXT" \in allowed /\ cfg
    THEN Attempt(<<"credential_helper">>, "credential_helper" \in works)
    ELSE Attempt(<<>>, FALSE)

\* main.rs:945-960, the callback of pull_changes.
pull_changes_credentials(allowed, cfg, works) ==
    IF "DEFAULT" \in allowed
    THEN Attempt(<<"default">>, "default" \in works)
    ELSE IF "SSH_KEY" \in allowed
    THEN Attempt(<<"ssh_agent">>, "ssh_agent" \in works)
    ELSE IF "USER_PASS_PLAINTEXT" \in allowed /\ cfg
    THEN Attempt(<<"credential_helper">>, "credential_helper" \in works)
    ELSE Attempt(<<>>, FALSE)

\* A callback that goes on to the next allowed strategy when one fails.
fetch_changes_with_logs_credentials_Cascade(allowed, cfg, works) ==
    LET order == <<"default", "ssh_agent", "credential_helper">>
        type == [default |-> "DEFAULT", ssh_agent |-> "SSH_KEY",
                 credential_helper |-> "USER_PASS_PLAINTEXT"]
        matching == SelectSeq(order, LAMBDA st : type[st] \in allowed)
        firstOk == {i \in 1..Len(matching) : matching[i] \in works}
        n == IF firstOk = {} THEN Len(matching)
             ELSE CHOOSE i \in firstOk : \A j \in firstOk : i <= j
    IN  Attempt(SubSeq(matching, 1, n), firstOk # {})

\* main.rs:1138-1153, the callback of fetch_changes_with_logs.
fetch_changes_with_logs_credentials(allowed, cfg, works) ==
    IF "DEFAULT" \in allowed
    THEN Attempt(<<"default">>, "default" \in works)
    ELSE IF "SSH_KEY" \in allowed
    THEN Attempt(<<"ssh_agent">>, "ssh_agent" \in works)
    ELSE IF "USER_PASS_PLAINTEXT" \in allowed /\ cfg
    THEN Attempt(<<"credential_helper">>, "credential_helper" \in works)
    ELSE Attempt(<<>>, FALSE)

\* main.rs:1291-1306, the callback of push_changes_with_realtime_logs.
push_changes_with_realtime_logs_credentials(allowed, cfg, works) ==
    IF "DEFAULT" \in allowed
    THEN Attempt(<<"default">>, "default" \in works)
    ELSE IF "SSH_KEY" \in allowed
    THEN Attempt(<<"ssh_agent">>, "ssh_agent" \in works)
    ELSE IF "USER_PASS_PLAINTEXT" \in allowed /\ cfg
    THEN Attempt(<<"credential_helper">>, "credential_helper" \in works)
    ELSE Attempt(<<>>, FALSE)

\* main.rs:1478-1493, the callback of push_changes_with_logs.
push_changes_with_logs_credentials(allowed, cfg, works) ==
    IF "DEFAULT" \in allowed
    THEN Attempt(<<"default">>, "default" \in works)
    ELSE IF "SSH_KEY" \in allowed
    THEN Attempt(<<"ssh_agent">>, "ssh_agent" \in works)
    ELSE IF "USER_PASS_PLAINTEXT" \in allowed /\ cfg
    THEN Attempt(<<"credential_helper">>, "credential_helper" \in works)
    ELSE Attempt(<<>>, FALSE)

\* main.rs:1724-1739, the callback of pull_changes_with_logs.
pull_changes_with_logs_credentials(allowed, cfg, works) ==
    IF "DEFAULT" \in allowed
    THEN Attempt(<<"default">>, "default" \in works)
    ELSE IF "SSH_KEY" \in allowed
    THEN Attempt(<<"ssh_agent">>, "ssh_agent" \in works)
    ELSE IF "USER_PASS_PLAINTEXT" \in allowed /\ cfg
    THEN Attempt(<<"credential_helper">>, "credential_helper" \in works)
    ELSE Attempt(<<>>, FALSE)

\* The commands that connect to the remote, each with its callback.
NetworkOps == {"push_changes", "pull_changes", "fetch_changes_with_logs",
               "push_changes_with_realtime_logs", "push_changes_with_logs",
               "pull_changes_with_logs"}

CredentialsOf(op, allowed, cfg, works) ==
    CASE op = "push_changes" -> push_changes_credentials(allowed, cfg, works)
      [] op = "pull_changes" -> pull_changes_credentials(allowed, cfg, works)
      [] op = "fetch_changes_with_logs" ->
             fetch_changes_with_logs_credentials(allowed, cfg, works)
      [] op = "push_changes_with_realtime_logs" ->
             push_changes_with_realtime_logs_credentials(allowed, cfg, works)
      [] op = "push_changes_with_logs" ->
             push_changes_with_logs_credentials(allowed, cfg, works)
      [] op = "pull_changes_with_logs" ->
             pull_changes_with_logs_credentials(allowed, cfg, works)

RepoVars == <<commits, head, refs, tracking, originHead, upstream, index,
              workdir, remoteRefs, last, view, stashes, dropped, running,
              recent>>

\* The transports of a remote URL.  libgit2 bounds the authentication replays
\* of one HTTP request ("too many redirects or authentication replays"); its
\* SSH transport asks for credentials again for as long as the server answers
\* an authentication error: do { request_creds; authenticate } while (EAUTH).
Transports == {"http", "ssh"}

\* The credential types a challenge of the transport can allow: Basic,
\* Negotiate and NTLM over HTTP; public key, password and the request for a
\* user name over SSH.
AllowedBy(transport) ==
    IF transport = "http" THEN {"DEFAULT", "USER_PASS_PLAINTEXT"}
    ELSE IF transport = "ssh" THEN {"SSH_KEY", "USER_PASS_PLAINTEXT", "USERNAME"}
    ELSE {}

\* remote.fetch / remote.push (main.rs:893, 967, 1162, 1319, 1503, 1749) opens
\* the connection of command op over the transport of the URL of origin.
Connect(op, transport) ==
    /\ auth.phase = "idle"
    /\ auth' = [NoNegotiation EXCEPT !.phase = "connected", !.op = op,
                                     !.transport = transport]
    /\ UNCHANGED RepoVars

\* The transport asks the callback again after a rejection: always over SSH,
\* below its replay limit over HTTP.
AsksAgain ==
    auth.phase = "rejected"
        /\ (auth.transport = "ssh" \/ auth.challenges < MaxChallenges)

\* A challenge counter that stops counting at the replay limit.
CountChallenge(n) == IF n < MaxChallenges THEN n + 1 ELSE n

\* The remote issues a challenge that allows the credential types `allowed`,
\* and libgit2 invokes the credentials callback of the command; a callback
\* that returns an error ends the negotiation.
Challenge(allowed, works) ==
    /\ auth.phase = "connected" \/ AsksAgain
    /\ allowed # {}
    /\ allowed \subseteq AllowedBy(auth.transport)
    /\ LET a == CredentialsOf(auth.op, allowed, RepoConfig, works)
       IN  auth' = [phase |-> IF a.ok THEN "offered" ELSE "failed",
                    op |-> auth.op, transport |-> auth.transport,
                    allowed |-> allowed, tried |-> a.tried,
                    ok |-> a.ok, works |-> works,
                    challenges |-> CountChallenge(auth.challenges)]
    /\ UNCHANGED RepoVars

\* The remote accepts the credential the callback returned.
RemoteAccepts ==
    /\ auth.phase = "offered"
    /\ auth' = [auth EXCEPT !.phase = "authenticated"]
    /\ UNCHANGED RepoVars

\* The remote rejects the credential; it will issue its challenge again.
RemoteRejects ==
    /\ auth.phase = "offered"
    /\ auth' = [auth EXCEPT !.phase = "rejected"]
    /\ UNCHANGED RepoVars

\* The HTTP transport gives up at its replay limit.
ReplayLimit ==
    /\ auth.phase = "rejected"
    /\ ~AsksAgain
    /\ auth' = [auth EXCEPT !.phase = "failed"]
    /\ UNCHANGED RepoVars

\* The connection ends.
Disconnect ==
    /\ auth.phase \in {"authenticated", "failed"}
    /\ auth' = NoNegotiation
    /\ UNCHANGED RepoVars

\* --------------------------------------------------------- specification

Next ==
    \/ \E p \in Paths, c \in Contents : EditFile(p, c)
    \/ \E p \in Paths : stage_file(p)
    \/ commit_changes
    \/ \E b \in Branches, t \in Trees : RemoteCommit(b, t)
    \/ fetch_changes_with_logs
    \/ pull_changes
    \/ pull_changes_with_logs
    \/ push_changes
    \/ checkout_branch

Spec == Init /\ [][Next]_vars

\* The push commands, from every upstream configuration of the branch.
InitPush ==
    /\ commits = << [parents |-> <<>>, tree |-> InitialTree, message |-> <<"init">>] >>
    /\ head = Symbolic("main")
    /\ refs = [b \in Branches |-> 1]
    /\ tracking = [b \in Branches |-> 1]
    /\ originHead = TRUE
    /\ upstream \in [Branches -> {NoUpstream, "origin", "fork"}]
    /\ index = InitialTree
    /\ workdir = InitialTree
    /\ remoteRefs = [b \in Branches |-> 1]
    /\ last = Result("none", TRUE, "none")
    /\ auth = NoNegotiation
    /\ view = NoView
    /\ stashes = <<>>
    /\ dropped = {}
    /\ running = NoCalls
    /\ recent = <<>>

NextPush ==
    \/ commit_changes
    \/ \E b \in Branches, t \in Trees : RemoteCommit(b, t)
    \/ fetch_changes_with_logs
    \/ push_changes
    \/ push_changes_with_realtime_logs
    \/ push_changes_with_logs
    \/ checkout_branch
    \/ open_repository

SpecPush == InitPush /\ [][NextPush]_vars

\* The credential negotiation of the network commands.
NextAuth ==
    \/ \E op \in NetworkOps, transport \in Transports : Connect(op, transport)
    \/ \E allowed \in SUBSET CredentialTypes, works \in SUBSET Strategies :
           Challenge(allowed, works)
    \/ RemoteAccepts
    \/ RemoteRejects
    \/ ReplayLimit
    \/ Disconnect

SpecAuth == Init /\ [][NextAuth]_vars

\* The commands that work on the repository alone: editing, staging,
\* committing and checking out.
NextLocal ==
    \/ \E p \in Paths, c \in Contents : EditFile(p, c)
    \/ \E p \in Paths : stage_file(p)
    \/ \E p \in Paths : unstage_file(p)
    \/ commit_changes
    \/ checkout_branch

SpecLocal == Init /\ [][NextLocal]_vars

\* The working tree and the index of a repository with one commit, of any
\* tree (a first commit may be empty), in any state of staging.
InitStatus ==
    /\ \E t \in Trees :
          commits = << [parents |-> <<>>, tree |-> t, message |-> <<"init">>] >>
    /\ head = Symbolic("main")
    /\ refs = [b \in Branches |-> 1]
    /\ tracking = [b \in Branches |-> 1]
    /\ originHead = TRUE
    /\ upstream = [b \in Branches |-> "origin"]
    /\ index \in Trees
    /\ workdir \in Trees
    /\ remoteRefs = [b \in Branches |-> 1]
    /\ last = Result("none", TRUE, "none")
    /\ auth = NoNegotiation
    /\ view = NoView
    /\ stashes = <<>>
    /\ dropped = {}
    /\ running = NoCalls
    /\ recent = <<>>

NextStatus ==
    \/ \E p \in Paths, c \in Contents : EditFile(p, c)
    \/ \E p \in Paths : stage_file(p)
    \/ \E p \in Paths : unstage_file(p)
    \/ commit_changes
    \/ checkout_branch
    \/ get_workspace_status

SpecStatus == InitStatus /\ [][NextStatus]_vars

\* A repository with a second local branch, dev, that has no branch of the
\* remote and no upstream.
InitBranch ==
    /\ commits = << [parents |-> <<>>, tree |-> InitialTree, message |-> <<"init">>] >>
    /\ head = Symbolic("main")
    /\ refs = [b \in Branches \cup {"dev"} |-> 1]
    /\ tracking = [b \in Branches \cup {"dev"} |-> IF b \in Branches THEN 1 ELSE NoCommit]
    /\ originHead = TRUE
    /\ upstream = [b \in Branches \cup {"dev"} |->
                       IF b \in Branches THEN "origin" ELSE NoUpstream]
    /\ index = InitialTree
    /\ workdir = InitialTree
    /\ remoteRefs = [b \in Branches \cup {"dev"} |-> IF b \in Branches THEN 1 ELSE NoCommit]
    /\ last = Result("none", TRUE, "none")
    /\ auth = NoNegotiation
    /\ view = NoView
    /\ stashes = <<>>
    /\ dropped = {}
    /\ running = NoCalls
    /\ recent = <<>>

\* Committing and checking out on the two branches, and opening the
\* repository.
NextBranch ==
    \/ \E p \in Paths, c \in Contents : EditFile(p, c)
    \/ \E p \in Paths : stage_file(p)
    \/ commit_changes
    \/ checkout_branch
    \/ open_repository

SpecBranch == InitBranch /\ [][NextBranch]_vars

\* A repository of one commit, which has the file or does not, with a clean
\* index and working tree.
InitStash ==
    /\ \E t \in {TreeOf(NoCommit), InitialTree} :
          /\ commits = << [parents |-> <<>>, tree |-> t, message |-> <<"init">>] >>
          /\ index = t
          /\ workdir = t
    /\ head = Symbolic("main")
    /\ refs = [b \in Branches |-> 1]
    /\ tracking = [b \in Branches |-> 1]
    /\ originHead = TRUE
    /\ upstream = [b \in Branches |-> "origin"]
    /\ remoteRefs = [b \in Branches |-> 1]
    /\ last = Result("none", TRUE, "none")
    /\ auth = NoNegotiation
    /\ view = NoView
    /\ stashes = <<>>
    /\ dropped = {}
    /\ running = NoCalls
    /\ recent = <<>>

\* Saving and applying the staged and the unstaged changes, the clock
\* standing still.
NextStash ==
    \/ \E p \in Paths, c \in Contents : EditFile(p, c)
    \/ \E p \in Paths : stage_file(p)
    \/ \E message \in Messages : create_stash(message, FirstSecond)
    \/ apply_stash

SpecStash == InitStash /\ [][NextStash]_vars

\* The stash list under the stash commands, the clock showing any second.
NextStashList ==
    \/ \E p \in Paths, c \in Contents : EditFile(p, c)
    \/ \E message \in Messages, now \in Times : create_stash(message, now)
    \/ apply_stash
    \/ delete_stash

SpecStashList == InitStash /\ [][NextStashList]_vars

\* The stash list of a repository of two branches, read after HEAD has moved.
NextStashBranch ==
    \/ \E p \in Paths, c \in Contents : EditFile(p, c)
    \/ \E message \in Messages : create_stash(message, FirstSecond)
    \/ checkout_branch
    \/ get_stash_list

SpecStashBranch == InitBranch /\ [][NextStashBranch]_vars

\* A repository that has fetched a commit of the remote it has not yet pulled,
\* with HEAD on the branch or detached at the first commit.
InitQuery ==
    /\ \E t1 \in {TreeOf(NoCommit), InitialTree}, t2 \in Trees :
          /\ commits = << [parents |-> <<>>, tree |-> t1, message |-> <<"init">>],
                          [parents |-> <<Len(<<"init">>)>>, tree |-> t2,
                           message |-> <<"remote">>] >>
          /\ index = t1
          /\ workdir = t1
    /\ head \in {Symbolic("main"), Detached(Len(<<"init">>))}
    /\ refs = [b \in Branches |-> Len(<<"init">>)]
    /\ tracking = [b \in Branches |-> Len(commits)]
    /\ originHead = TRUE
    /\ upstream = [b \in Branches |-> "origin"]
    /\ remoteRefs = [b \in Branches |-> Len(commits)]
    /\ last = Result("none", TRUE, "none")
    /\ auth = NoNegotiation
    /\ view = NoView
    /\ stashes = <<>>
    /\ dropped = {}
    /\ running = NoCalls
    /\ recent = <<>>

\* A status query in its three steps, while the user edits and stages and a
\* pull runs.
NextQuery ==
    \/ \E p \in Paths, c \in Contents : EditFile(p, c)
    \/ \E p \in Paths : stage_file(p)
    \/ pull_changes
    \/ pull_changes_with_logs
    \/ get_workspace_status_statuses
    \/ get_workspace_status_entries
    \/ get_workspace_status_diff

SpecQuery == InitQuery /\ [][NextQuery]_vars

\* A pull in its two steps, while the user edits, stages and commits.
NextWriters ==
    \/ \E p \in Paths, c \in Contents : EditFile(p, c)
    \/ \E p \in Paths : stage_file(p)
    \/ commit_changes
    \/ pull_changes_fetch
    \/ pull_changes_merge

SpecWriters == InitQuery /\ [][NextWriters]_vars

\* A clone with any upstream configuration of its branch and any content of
\* the file in the working tree.
InitVariants ==
    /\ commits = << [parents |-> <<>>, tree |-> InitialTree, message |-> <<"init">>] >>
    /\ head = Symbolic("main")
    /\ refs = [b \in Branches |-> 1]
    /\ tracking = [b \in Branches |-> 1]
    /\ originHead = TRUE
    /\ upstream \in [Branches -> {NoUpstream, "origin", "fork"}]
    /\ index = InitialTree
    /\ workdir \in Trees
    /\ remoteRefs = [b \in Branches |-> 1]
    /\ last = Result("none", TRUE, "none")
    /\ auth = NoNegotiation
    /\ view = NoView
    /\ stashes = <<>>
    /\ dropped = {}
    /\ running = NoCalls
    /\ recent = <<>>

\* The pull and the push commands in all their variants.
NextVariants ==
    \/ commit_changes
    \/ \E b \in Branches, t \in Trees : RemoteCommit(b, t)
    \/ fetch_changes_with_logs
    \/ pull_changes
    \/ pull_changes_with_logs
    \/ push_changes
    \/ push_changes_with_realtime_logs
    \/ push_changes_with_logs
    \/ checkout_branch

SpecVariants == InitVariants /\ [][NextVariants]_vars

\* A repository without a remote, new (its branch has no commit yet) or with
\* one commit of any tree, in any state of staging.
InitCommit ==
    /\ commits \in {<<>>} \cup
                   {<< [parents |-> <<>>, tree |-> t, message |-> <<"init">>] >> :
                       t \in Trees}
    /\ head = Symbolic("main")
    /\ refs = [b \in Branches |-> IF commits = <<>> THEN NoCommit ELSE Len(commits)]
    /\ tracking = [b \in Branches |-> NoCommit]
    /\ originHead = FALSE
    /\ upstream = [b \in Branches |-> NoUpstream]
    /\ index \in Trees
    /\ workdir \in Trees
    /\ remoteRefs = [b \in Branches |-> NoCommit]
    /\ last = Result("none", TRUE, "none")
    /\ auth = NoNegotiation
    /\ view = NoView
    /\ stashes = <<>>
    /\ dropped = {}
    /\ running = NoCalls
    /\ recent = <<>>

\* Editing, staging and committing, and the status of the result.
NextCommit ==
    \/ \E p \in Paths, c \in Contents : EditFile(p, c)
    \/ \E p \in Paths : stage_file(p)
    \/ \E p \in Paths : unstage_file(p)
    \/ commit_changes
    \/ get_workspace_status

SpecCommit == InitCommit /\ [][NextCommit]_vars

\* A clone that has also fetched a commit of the remote "fork", with any
\* upstream configuration of its branch.
InitUpstream ==
    /\ \E t \in Trees :
          commits = << [parents |-> <<>>, tree |-> InitialTree, message |-> <<"init">>],
                       [parents |-> <<Len(<<"init">>)>>, tree |-> t,
                        message |-> <<"fork">>] >>
    /\ head = Symbolic("main")
    /\ refs = [b \in Branches |-> Len(<<"init">>)]
    /\ tracking = [b \in Branches |-> Len(<<"init">>)]
    /\ originHead = TRUE
    /\ upstream \in [Branches -> {NoUpstream, "origin", "fork"}]
    /\ index = InitialTree
    /\ workdir = InitialTree
    /\ remoteRefs = [b \in Branches |-> Len(<<"init">>)]
    /\ last = Result("none", TRUE, "none")
    /\ auth = NoNegotiation
    /\ view = NoView
    /\ stashes = <<>>
    /\ dropped = {}
    /\ running = NoCalls
    /\ recent = <<>>

\* Pulling and opening, while commits are written here and on the remote.
NextUpstream ==
    \/ commit_changes
    \/ \E b \in Branches, t \in Trees : RemoteCommit(b, t)
    \/ fetch_changes_with_logs
    \/ pull_changes
    \/ pull_changes_with_logs
    \/ open_repository

SpecUpstream == InitUpstream /\ [][NextUpstream]_vars

\* The list after the paths from the second to the one numbered n + 1 have
\* been saved, the last first.
SavedList(n) == [k \in 1..n |-> RecentRepo(<<"/", k + 1>>)]

\* The paths saved in the runs of SpecRecent: the repository of the model, the
\* first and the last entry of a full list, and a path no list starts with.
SavedPaths ==
    {<<"/", n>> : n \in {Len(<<"init">>), Len(<<"init">>) + 1,
                         MaxRecentRepos, MaxRecentRepos + 1}}

\* The repository of the model, with a list of recent repositories that is
\* empty, one short of full, or full.
InitRecent ==
    /\ commits = << [parents |-> <<>>, tree |-> InitialTree, message |-> <<"init">>] >>
    /\ head = Symbolic("main")
    /\ refs = [b \in Branches |-> Len(<<"init">>)]
    /\ tracking = [b \in Branches |-> NoCommit]
    /\ originHead = FALSE
    /\ upstream = [b \in Branches |-> NoUpstream]
    /\ index = InitialTree
    /\ workdir = InitialTree
    /\ remoteRefs = [b \in Branches |-> NoCommit]
    /\ last = Result("none", TRUE, "none")
    /\ auth = NoNegotiation
    /\ view = NoView
    /\ stashes = <<>>
    /\ dropped = {}
    /\ running = NoCalls
    /\ recent \in {SavedList(n) : n \in {0, MaxRecentRepos - 1, MaxRecentRepos}}

\* Saving, opening and listing, one call after the other.
NextRecent ==
    \/ \E path \in SavedPaths : save_recent_repo(path)
    \/ open_repository
    \/ get_recent_repos

SpecRecent == InitRecent /\ [][NextRecent]_vars

\* The page arguments of a caller: None, or a number up to MaxPage.
MaxPage == 4
PageArgs == {None} \cup {Some(n) : n \in 0..MaxPage}

\* The history of the two branches, read page by page.
NextHistory ==
    \/ commit_changes
    \/ checkout_branch
    \/ \E limit \in PageArgs, offset \in PageArgs : get_commits_paginated(limit, offset)

SpecHistory == InitBranch /\ [][NextHistory]_vars

\* The negotiation with every step that can be taken eventually taken: libgit2
\* and the remote keep answering.
SpecAuthFair == SpecAuth /\ WF_vars(NextAuth)

\* ------------------------------------------------- the synchronization claims

PullOps == {"pull_changes", "pull_changes_with_logs"}

PushOps == {"push_changes", "push_changes_with_realtime_logs",
            "push_changes_with_logs"}

\* This step is a pull whose fetch succeeded.
PullFetched == last'.op \in PullOps /\ last'.outcome # "fetch_failed"

\* The commit at refs/remotes/origin/<branch> after the fetch of this step.
FetchedRemoteOid == RemoteBranchOid(BranchName(head), tracking', originHead)

\* The repository before this step: staged changes, unstaged changes, clean.
HasStagedChange == StagedPaths(index, HeadOid) # {}
HasUnstagedChange == UnstagedPaths(index, workdir) # {}
Clean == ~HasStagedChange /\ ~HasUnstagedChange

\* This step is a pull that reaches its merge step (main.rs:1060): the fetch
\* succeeded, the remote ref exists and differs from HEAD, the dirty guard
\* passed and the pull is no fast-forward.
ReachesMerge ==
    /\ PullFetched
    /\ FetchedRemoteOid # NoCommit
    /\ FetchedRemoteOid # HeadOid
    /\ ~HasUncommittedChanges(index, workdir)
    /\ ~IsAncestor(HeadOid, FetchedRemoteOid)

\* C1 (dirty guard): a pull whose fetch succeeded, from a repository with a
\* staged or an unstaged change, returns the UncommittedChanges error and
\* leaves HEAD, the index and the working tree as they were.
C1_DirtyGuard ==
    [][(PullFetched /\ (HasStagedChange \/ HasUnstagedChange))
          => /\ last'.outcome = "uncommitted_changes"
             /\ UNCHANGED <<head, refs, index, workdir>>]_vars

\* C2 (fast-forward law): a pull from a clean repository whose HEAD commit is a
\* proper ancestor of the fetched remote commit succeeds, writes no commit, and
\* leaves the local branch and HEAD at the remote commit.
C2_FastForwardLaw ==
    [][(/\ PullFetched
        /\ Clean
        /\ FetchedRemoteOid # HeadOid
        /\ IsAncestor(HeadOid, FetchedRemoteOid))
          => /\ last'.ok
             /\ commits' = commits
             /\ HeadOidOf(head', refs') = FetchedRemoteOid
             /\ head.symbolic => refs'[head.branch] = FetchedRemoteOid]_vars

\* C3 (merge law): a pull from a clean repository whose HEAD and fetched remote
\* commit have diverged, with no path in conflict, writes exactly one commit,
\* with parents the prior HEAD and the remote commit in this order and the
\* message "Merge branch 'origin/<branch>'", and leaves HEAD at it.
C3_MergeLaw ==
    [][(/\ PullFetched
        /\ Clean
        /\ FetchedRemoteOid # NoCommit
        /\ ~IsAncestor(HeadOid, FetchedRemoteOid)
        /\ ~IsAncestor(FetchedRemoteOid, HeadOid)
        /\ MergeCommits(HeadOid, FetchedRemoteOid).conflicts = {})
          => /\ last'.ok
             /\ Len(commits') = Len(commits) + 1
             /\ commits'[Len(commits')].parents = <<HeadOid, FetchedRemoteOid>>
             /\ commits'[Len(commits')].message = MergeMessage(BranchName(head))
             /\ HeadOidOf(head', refs') = Len(commits')]_vars

C5_FailedPullKeepsState ==
    [][(PullFetched /\ ~last'.ok)
          => UNCHANGED <<head, refs, index, workdir>>]_vars

\* A pull that failed at its ref update.
C5_Witness ==
    /\ last.op \in PullOps
    /\ ~last.ok
    /\ last.outcome = "fast_forward_failed"

\* C6 (up to date): a pull whose fetched remote-tracking ref equals HEAD
\* reports success, writes no commit and leaves HEAD, the local refs, the index
\* and the working tree as they were.
C6_UpToDate ==
    [][(PullFetched /\ FetchedRemoteOid # NoCommit /\ FetchedRemoteOid = HeadOid)
          => /\ last'.ok
             /\ last'.outcome = "up_to_date"
             /\ UNCHANGED <<commits, head, refs, index, workdir>>]_vars

\* A pull that found the branch up to date, ahead of commit 1.
C6_Witness ==
    /\ last.op \in PullOps
    /\ last.outcome = "up_to_date"
    /\ HeadOid # 1

SyncOps == PullOps \cup PushOps \cup {"fetch_changes_with_logs"}

\* C7 (append-only graph): a fetch, pull or push changes or removes no commit
\* of the store, and after a successful pull the commit that was HEAD before
\* is reachable from the new HEAD.
C7_AppendOnly ==
    [][/\ last'.op \in SyncOps
          => /\ Len(commits') >= Len(commits)
             /\ \A i \in 1..Len(commits) : commits'[i] = commits[i]
       /\ (last'.op \in PullOps /\ last'.ok)
          => HeadOid \in ReachIn(commits', HeadOidOf(head', refs'))]_vars

\* A successful pull that moved HEAD.
C7_Witness ==
    /\ last.op \in PullOps
    /\ last.ok
    /\ last.outcome = "fast_forward"

\* C8 (fetch): fetch_changes_with_logs, succeeding or failing, leaves HEAD,
\* every local branch ref, the index and the working tree as they were.
C8_FetchFrame ==
    [][last'.op = "fetch_changes_with_logs"
          => UNCHANGED <<head, refs, index, workdir>>]_vars

\* A fetch that brought a remote commit the local branch does not have.
C8_Witness ==
    /\ last.op = "fetch_changes_with_logs"
    /\ last.ok
    /\ \E b \in Branches : ~IsAncestor(tracking[b], refs[b])

FirstAllowedStrategy(allowed) ==
    IF "DEFAULT" \in allowed THEN <<"default">>
    ELSE IF "SSH_KEY" \in allowed THEN <<"ssh_agent">>
    ELSE IF "USER_PASS_PLAINTEXT" \in allowed THEN <<"credential_helper">>
    ELSE <<>>

C10_OneStrategyPerChallenge ==
    auth.phase \in {"offered", "failed"}
        => /\ auth.tried = FirstAllowedStrategy(auth.allowed)
           /\ Len(auth.tried) <= 1
           /\ auth.tried = <<>> => ~auth.ok
           /\ auth.tried # <<>> => (auth.ok <=> auth.tried[1] \in auth.works)
           /\ auth.phase = "offered" => auth.ok

\* A fetch whose challenge allows SSH keys and passwords, whose agent key
\* fails while the credential helper would have worked: the callback failed
\* after the agent alone.
C10_Witness ==
    /\ auth.phase = "failed"
    /\ auth.op = "fetch_changes_with_logs"
    /\ auth.allowed = {"SSH_KEY", "USER_PASS_PLAINTEXT"}
    /\ auth.works = {"credential_helper"}
    /\ auth.tried = <<"ssh_agent">>

\* C11 (negotiation terminates): every connection of a fetch or push, also to
\* a remote that rejects every credential and issues its challenge again,
\* eventually ends, authenticated or failed.
C11_NegotiationTerminates ==
    [](auth.phase = "connected"
          => <>(auth.phase \in {"authenticated", "failed"}))

\* C12 (network failures): the error value a fetch, pull or push returns for
\* a failed network step carries the remote URL and the refspec, and the
\* command has called the network once.
C12_NetworkErrorCarriesUrlAndRefspec ==
    (last.op \in SyncOps /\ last.outcome \in NetworkFailures)
        => /\ {"url", "refspec"} \subseteq last.error
           /\ NetworkAttempts(last.op) = 1

\* ------------------------------------------------------ the query claims

\* The commits reachable from commit a and not from commit b.
OnlyIn(a, b) ==
    {c \in DOMAIN commits : IsAncestor(c, a) /\ ~IsAncestor(c, b)}

PathsOf(list) == {list[k].path : k \in 1..Len(list)}

\* The places of path p in a list of paths, and in a list of FileChange.
PlacesOfPath(list, p) == {k \in 1..Len(list) : list[k] = p}
PlacesOfChange(list, p) == {k \in 1..Len(list) : list[k].path = p}

\* A status has returned and the repository has not changed since.
StatusReturned == view.op = "get_workspace_status"

\* The content of path p in the tree of HEAD.
InHead(p) == TreeOf(HeadOid)[p]

\* C14 (exclusivity): no result of status has a path both in untracked_files
\* and in unstaged_files.
C14_Exclusivity ==
    StatusReturned =>
        \A p \in Paths :
            ~(ContainsPath(view.files.untracked_files, p)
                /\ AnyFileChange(view.files.unstaged_files, p))

\* A status of a path of HEAD whose deletion is staged and whose file is in
\* the working tree: both passes meet the path as a new file.
C14_Witness ==
    /\ StatusReturned
    /\ \E p \in Paths : /\ InHead(p) # 0 /\ index[p] = 0 /\ workdir[p] # 0
                         /\ ContainsPath(view.files.untracked_files, p)

\* C15 (de-duplication): in every result of status each path is at most once
\* in staged_files, at most once in unstaged_files and at most once in
\* untracked_files.
C15_NoDuplicates ==
    StatusReturned =>
        \A p \in Paths :
            /\ Cardinality(PlacesOfChange(view.files.staged_files, p)) <= 1
            /\ Cardinality(PlacesOfChange(view.files.unstaged_files, p)) <= 1
            /\ Cardinality(PlacesOfPath(view.files.untracked_files, p)) <= 1

\* A status of a newly staged file that was modified since: the status pass
\* and the diff pass both report the path as unstaged.
C15_Witness ==
    /\ StatusReturned
    /\ \E p \in Paths : /\ InHead(p) = 0 /\ index[p] # 0
                         /\ workdir[p] \notin {0, index[p]}
                         /\ AnyFileChange(view.files.unstaged_files, p)
                         /\ AnyFileChange(view.files.staged_files, p)

\* C16 (tie-break): status reports a path of HEAD whose deletion is staged and
\* whose file exists in the working tree as staged deleted and as untracked,
\* not as unstaged; it reports a new file of a path that HEAD has not and the
\* index has not as untracked only.
C16_TieBreak ==
    StatusReturned =>
        \A p \in Paths :
            /\ (InHead(p) # 0 /\ index[p] = 0 /\ workdir[p] # 0)
                  => /\ \E k \in PlacesOfChange(view.files.staged_files, p) :
                            view.files.staged_files[k].status = "deleted"
                     /\ ContainsPath(view.files.untracked_files, p)
                     /\ ~AnyFileChange(view.files.unstaged_files, p)
            /\ (InHead(p) = 0 /\ index[p] = 0 /\ workdir[p] # 0)
                  => /\ ContainsPath(view.files.untracked_files, p)
                     /\ ~AnyFileChange(view.files.staged_files, p)
                     /\ ~AnyFileChange(view.files.unstaged_files, p)

\* A status that reported a staged deletion next to an untracked file.
C16_Witness ==
    /\ StatusReturned
    /\ \E p \in Paths :
          /\ FileChange(p, "deleted") \in
                 {view.files.staged_files[k] : k \in 1..Len(view.files.staged_files)}
          /\ view.files.untracked_files = <<p>>
          /\ view.files.unstaged_files = <<>>

C18_StatusReadOnly ==
    [][view'.op = "get_workspace_status"
          => /\ UNCHANGED <<commits, head, refs, tracking, index, workdir>>
             /\ view.op = "get_workspace_status" => view'.files = view.files]_vars

\* A status of a repository with staged and unstaged changes.
C18_Witness ==
    /\ StatusReturned
    /\ view.files.staged_files # <<>>
    /\ view.files.unstaged_files # <<>>
    /\ index # workdir

\* ------------------------------------------- the commit and checkout claims

\* C19 (nothing staged): a commit on an empty index fails with the
\* NothingStaged error, writes no commit and leaves HEAD, the refs and the
\* index as they were.
C19_NothingStaged ==
    [][(last'.op = "commit_changes" /\ \A p \in Paths : index[p] = 0)
          => /\ ~last'.ok
             /\ last'.outcome = "nothing_staged"
             /\ UNCHANGED <<commits, head, refs, index>>]_vars

\* A commit was refused on an empty index while the working tree has a file.
C19_Witness ==
    /\ last.op = "commit_changes"
    /\ last.outcome = "nothing_staged"
    /\ \A p \in Paths : index[p] = 0
    /\ \E p \in Paths : workdir[p] # 0

\* This step is a successful checkout_branch of branch b, of commit c.
CheckedOutBranch(b) ==
    /\ refs[b] # NoCommit
    /\ \E strict \in BOOLEAN : Checkout(refs[b], Symbolic(b), strict)
    /\ last'.ok

CheckedOutCommit(c) ==
    /\ \E strict \in BOOLEAN : Checkout(c, Detached(c), strict)
    /\ last'.ok

\* C20 as stated (checkout): after a successful checkout HEAD resolves to the
\* commit the name names, attached for a branch name and detached for a
\* commit, and the working tree is the tree of that commit.
C20_CheckoutMatchesTree ==
    [][(last'.op = "checkout_branch" /\ last'.ok) =>
       /\ \A b \in Branches :
             CheckedOutBranch(b)
                => /\ head' = Symbolic(b)
                   /\ HeadOidOf(head', refs') = refs[b]
                   /\ workdir' = TreeOf(refs[b])
       /\ \A c \in LocalCommits :
             CheckedOutCommit(c)
                => /\ ~head'.symbolic
                   /\ HeadOidOf(head', refs') = c
                   /\ workdir' = TreeOf(c)]_vars

\* The working tree after a checkout of commit c: each path that differs
\* between the commit of HEAD before and c has the content of c, each other
\* path the content it had.
KeepsUncommitted(c) ==
    \A p \in Paths :
        workdir'[p] = IF TreeOf(c)[p] # TreeOf(HeadOid)[p]
                      THEN TreeOf(c)[p] ELSE workdir[p]

\* C20 as amended (checkout): after a successful checkout HEAD resolves to the
\* commit the name names, attached for a branch name and detached for a
\* commit; each path that differs between the previous commit of HEAD and
\* that commit has its content, each other path is as it was, so that a
\* working tree without uncommitted changes is the tree of the commit.
C20_CheckoutKeepsUncommitted ==
    [][(last'.op = "checkout_branch" /\ last'.ok) =>
       /\ \A b \in Branches :
             CheckedOutBranch(b)
                => /\ head' = Symbolic(b)
                   /\ HeadOidOf(head', refs') = refs[b]
                   /\ KeepsUncommitted(refs[b])
                   /\ workdir = TreeOf(HeadOid) => workdir' = TreeOf(refs[b])
       /\ \A c \in LocalCommits :
             CheckedOutCommit(c)
                => /\ ~head'.symbolic
                   /\ HeadOidOf(head', refs') = c
                   /\ KeepsUncommitted(c)
                   /\ workdir = TreeOf(HeadOid) => workdir' = TreeOf(c)]_vars

\* A checkout moved a detached HEAD to a commit of another tree and rewrote
\* the working tree to it.
C20_Witness ==
    /\ last.op = "checkout_branch"
    /\ last.ok
    /\ ~head.symbolic
    /\ workdir = TreeOf(HeadOid)
    /\ \E b \in Branches : TreeOf(refs[b]) # TreeOf(HeadOid)

\* --------------------------------------------------------- the branch list

\* The names of the entries of the branch list open_repository returned that
\* are marked current.
CurrentEntries == {b.name : b \in {e \in view.branches : e.is_current}}

\* C21 (as stated): in every RepoSummary returned by open, after any sequence
\* of checkouts of branch names or detached targets, exactly one entry of
\* branches has is_current = true and it is the branch HEAD points to.
C21_ExactlyOneCurrent ==
    view.op = "open_repository"
        => /\ Cardinality({e \in view.branches : e.is_current}) = 1
           /\ head.symbolic
           /\ CurrentEntries = {head.branch}

\* C21 (amended): in every RepoSummary returned by open, when HEAD points to a
\* branch exactly one entry of branches has is_current = true and it is that
\* branch; when HEAD is detached no entry has is_current = true.
C21_CurrentFollowsHead ==
    view.op = "open_repository"
        => /\ {e.name : e \in view.branches} = LocalBranchNames
           /\ \A e, f \in view.branches : e.name = f.name => e = f
           /\ IF head.symbolic
              THEN /\ Cardinality({e \in view.branches : e.is_current}) = 1
                   /\ CurrentEntries = {head.branch}
              ELSE CurrentEntries = {}

\* open has returned the branch list of a repository whose HEAD a checkout has
\* moved to the branch dev, which has a commit main does not have.
C21_Witness ==
    /\ view.op = "open_repository"
    /\ head = Symbolic("dev")
    /\ refs["dev"] # refs["main"]
    /\ Cardinality(view.branches) = 2

\* ------------------------------------------------------ the commit history

\* The commits at the positions from + 1 .. from + n of the walk from HEAD,
\* fewer when the walk ends before.
WalkSlice(from, n) ==
    [i \in 1..(IF Len(Revwalk) - from < n
               THEN (IF Len(Revwalk) > from THEN Len(Revwalk) - from ELSE 0)
               ELSE n) |-> CommitInfo(Revwalk[from + i])]

\* C22: listCommits(limit, offset) returns exactly the commits at the
\* positions offset .. offset+limit-1 of the walk from HEAD, fewer when the
\* history ends and none when limit = 0, limit defaulting to 50 and offset to
\* 0; the pages (a, 0) and (b, a) concatenated equal the page (a+b, 0), no
\* commit skipped or repeated.
C22_Pagination ==
    /\ view.op = "get_commits_paginated"
          => view.commits =
                WalkSlice(IF view.offset = None THEN 0 ELSE Head(view.offset),
                          IF view.limit = None THEN 50 ELSE Head(view.limit))
    /\ \A a, b \in 0..MaxPage :
          get_commit_history_paginated(Some(a), Some(0))
                  \o get_commit_history_paginated(Some(b), Some(a))
              = get_commit_history_paginated(Some(a + b), Some(0))
    /\ {Revwalk[i] : i \in 1..Len(Revwalk)} = Reach(HeadOid)
    /\ Len(Revwalk) = Cardinality(Reach(HeadOid))

\* A page that starts inside a history of three commits and ends before its
\* end has been returned.
C22_Witness ==
    /\ view.op = "get_commits_paginated"
    /\ view.offset = Some(1)
    /\ view.limit = Some(1)
    /\ Len(Revwalk) = 3
    /\ Len(view.commits) = 1

\* ------------------------------------------------------------- the stash

\* C23: stash create fails with NothingToStash when neither the working tree
\* nor the index shows a change relative to HEAD, and then adds no stash entry
\* and changes neither the index nor the working tree.
C23_NothingToStash ==
    [][(last'.op = "create_stash"
            /\ index = TreeOf(HeadOid) /\ workdir = TreeOf(HeadOid))
          => /\ ~last'.ok
             /\ last'.outcome = "no_changes"
             /\ UNCHANGED <<stashes, index, workdir>>]_vars

\* A create has found nothing to save in a repository that has a stash from
\* an earlier create.
C23_Witness ==
    /\ last.op = "create_stash"
    /\ last.outcome = "no_changes"
    /\ Len(stashes) >= 1
    /\ Clean

\* This step is an apply of the id that the create right before it returned.
AppliesCreated ==
    /\ last.op = "create_stash"
    /\ last.ok
    /\ last'.op = "apply_stash"
    /\ last'.stash_id = OidString(last.id)

\* C24: stash create followed immediately by apply of the returned id
\* restores the index and the working tree to the state they had just before
\* the create.
C24_RoundTrip ==
    [][AppliesCreated
          => /\ last'.ok
             /\ index' = last.before.index
             /\ workdir' = last.before.workdir]_vars

\* An apply has restored a staged change and a different unstaged change of
\* the same file, right after the create that saved them.
C24_Witness ==
    /\ last.op = "apply_stash"
    /\ last.ok
    /\ index # TreeOf(HeadOid)
    /\ workdir # index
    /\ workdir # TreeOf(HeadOid)
    /\ \E k \in 1..Len(stashes) :
          /\ OidString(stashes[k]) = last.stash_id
          /\ stashes[k].index = index
          /\ stashes[k].workdir = workdir

\* The positions of the stash list whose id equals the string or starts with
\* it.
MatchingStashes(stash_id) ==
    {k \in 1..Len(stashes) : StartsWith(OidString(stashes[k]), stash_id)}

\* C25: stash apply(id_or_prefix) applies a stash only when exactly one entry
\* of the stash list has an id equal to or starting with id_or_prefix; when no
\* entry or more than one entry matches it fails with StashNotFound, applies
\* nothing, and the error lists the id and message of every available stash.
\* (Stated for the ids of one digit or more.)
C25_UniqueMatch ==
    [][(last'.op = "apply_stash" /\ last'.stash_id # <<>>)
          => IF Cardinality(MatchingStashes(last'.stash_id)) = 1
             THEN last'.applied \in MatchingStashes(last'.stash_id)
             ELSE /\ ~last'.ok
                  /\ last'.outcome = "stash_not_found"
                  /\ last'.applied = 0
                  /\ last'.available = AvailableStashes(stashes)
                  /\ UNCHANGED <<index, workdir, stashes>>]_vars

\* C26: stash apply never removes a stash entry: after apply, whether it
\* succeeds, reports a benign already-applied outcome, or fails with
\* StashConflict or any other error, the stash list contains the same entries
\* in the same order as before.
C26_ApplyKeepsList ==
    [][last'.op = "apply_stash" => stashes' = stashes]_vars

\* An apply of the older of two stashes has failed with a conflict, the file
\* having been edited since, and both stashes are on the list.
C26_Witness ==
    /\ last.op = "apply_stash"
    /\ last.outcome = "conflict"
    /\ last.applied = 2
    /\ Len(stashes) = 2

\* C27: applying a stash a second time, or one whose changes are already
\* present in the working tree, returns success (already applied / nothing to
\* apply) rather than an error, and leaves the index and the working tree as
\* after the first apply.  (Stated for the second apply, in the next step, of
\* a stash that holds a staged change.)
C27_ReapplyIsBenign ==
    [][(/\ last.op = "apply_stash"
        /\ last.ok
        /\ last'.op = "apply_stash"
        /\ last'.applied = last.applied
        /\ stashes[last.applied].index # TreeOf(stashes[last.applied].base))
          => /\ last'.ok
             /\ UNCHANGED <<index, workdir>>]_vars

\* A list without its entry at position k.
WithoutEntry(list, k) == SubSeq(list, 1, k - 1) \o SubSeq(list, k + 1, Len(list))

\* The ids of the entries of the stash list, as strings.
ListedIds == {OidString(stashes[k]) : k \in 1..Len(stashes)}

C29_NoReuse ==
    [][(last'.op = "create_stash" /\ last'.ok) => last'.id \notin dropped]_vars

\* C29 (amended): an id returned by a create that happens after drop(id0) is
\* equal to id0 only when that create saves the same index and working-tree
\* content, from the same HEAD commit and branch, with the same message and at
\* the same second of the clock, as the stash that id0 named.
C29_ReuseOnlyOfSameSnapshot ==
    [][(last'.op = "create_stash" /\ last'.ok /\ last'.id \in dropped)
          => \E d \in dropped :
                /\ d.base = HeadOid
                /\ d.branch = StashBranch(head)
                /\ d.index = index
                /\ \A p \in TrackedPaths(TreeOf(HeadOid), index) :
                      d.workdir[p] = workdir[p]
                /\ d.message = last'.message
                /\ d.time = last'.now]_vars

\* A create has returned the id of a stash that was dropped before, and
\* another create after that drop has returned an id that was never dropped.
C29_Witness ==
    /\ last.op = "create_stash"
    /\ last.ok
    /\ last.id \in dropped
    /\ Len(stashes) = 2
    /\ stashes[2] \notin dropped

\* C30: each entry returned by stash list carries as its branch the branch
\* that was current when that stash was created, also when HEAD has since
\* been moved to another branch by checkout.
C30_OriginatingBranch ==
    view.op = "get_stash_list"
        => \A k \in 1..Len(stashes) :
              stashes[k].branch \in DOMAIN refs
                  => view.stashes[k].branch = stashes[k].branch

\* ------------------------------------------------- the concurrency claims

\* This step is the return of a status query that ran in steps.
QueryReturns ==
    /\ running.get_workspace_status.pc = "entries"
    /\ running'.get_workspace_status.pc = "idle"

\* C31 (status during a pull): a status query during which the index and the
\* working tree stayed as they were returns the status of the repository as it
\* was before the pull moved HEAD, or the status of the repository after it:
\* no mixture of the two.
C31_QuerySeesOneState ==
    [][(/\ QueryReturns
        /\ running.get_workspace_status.began.index = index
        /\ running.get_workspace_status.began.workdir = workdir)
          => view'.files \in
                {WorkspaceStatus(running.get_workspace_status.began.tree,
                                 index, workdir),
                 WorkspaceStatus(TreeOf(HeadOid), index, workdir)}]_vars

\* This step is the return of a pull that ran in steps.
PullReturns ==
    /\ running.pull_changes.pc = "fetched"
    /\ running'.pull_changes.pc = "idle"

\* C32 (one writer at a time): when a commit has completed between a pull's
\* read of HEAD and the pull's return, the commit is still reachable from HEAD
\* (the current branch) after the pull.
C32_CommitSurvivesPull ==
    [][(PullReturns /\ HeadOid # running.pull_changes.local_head_oid)
          => HeadOid \in ReachIn(commits', HeadOidOf(head', refs'))]_vars

\* ------------------------------------------- the pull and commit claims

\* This step is a pull command that ran as a whole.
PullRan == last'.op \in PullOps /\ running' = running

\* The tree of HEAD after this step.
NewHeadTree == commits'[HeadOidOf(head', refs')].tree

\* C33 (pull checks out): after a successful pull from a clean repository the
\* index and the working tree are the tree of the new HEAD commit, and status
\* returns empty staged and unstaged lists.
C33_PullChecksOut ==
    [][(PullRan /\ last'.ok /\ Clean)
          => /\ index' = NewHeadTree
             /\ workdir' = NewHeadTree
             /\ WorkspaceStatus(NewHeadTree, index', workdir').staged_files = <<>>
             /\ WorkspaceStatus(NewHeadTree, index', workdir').unstaged_files = <<>>]_vars

\* C34 (merge only when diverged): a pull writes a commit only when HEAD and
\* the fetched remote commit have diverged; when the remote commit is an
\* ancestor of HEAD the pull writes no commit and leaves HEAD and the local
\* refs as they were.
C34_MergeOnlyWhenDiverged ==
    [][(PullRan /\ PullFetched)
          => /\ Len(commits') > Len(commits)
                   => /\ ~IsAncestor(HeadOid, FetchedRemoteOid)
                      /\ ~IsAncestor(FetchedRemoteOid, HeadOid)
             /\ (FetchedRemoteOid # NoCommit /\ IsAncestor(FetchedRemoteOid, HeadOid))
                   => /\ commits' = commits
                      /\ head' = head
                      /\ refs' = refs]_vars

\* A pull has run with HEAD ahead of the remote commit it fetched.
C34_Witness ==
    /\ last.op \in PullOps
    /\ last.outcome \notin {"fetch_failed", "remote_ref_missing", "uncommitted_changes"}
    /\ RemoteBranchOid(BranchName(head), tracking, originHead) # HeadOid
    /\ IsAncestor(RemoteBranchOid(BranchName(head), tracking, originHead), HeadOid)

\* This step is a commit_changes command.
CommitRan == last'.op = "commit_changes" /\ view' = NoView

\* The entries of a list, in no order.
EntriesOf(list) == {list[k] : k \in 1..Len(list)}

\* C35 (commit if and only if staged): a commit succeeds exactly when status
\* reports a staged entry; otherwise it is refused with NothingStaged and
\* writes no commit.
C35_CommitIffStaged ==
    [][CommitRan
          => LET staged == WorkspaceStatus(TreeOf(HeadOid), index, workdir).staged_files
             IN  /\ last'.ok <=> staged # <<>>
                 /\ staged = <<>> => /\ last'.outcome = "nothing_staged"
                                     /\ commits' = commits]_vars

C37_NotBehindAfterPull ==
    (/\ view.op = "open_repository"
     /\ last.op \in PullOps
     /\ last.ok
     /\ head.symbolic
     /\ HasUpstream(head.branch, upstream, tracking))
        => view.behind = 0

\* ------------------------------------------------- the logging variants

\* What each pull variant does after a fetch that left the tracking refs tr.
PullVariants(tr) == {pull_changes_steps(tr), pull_changes_with_logs_steps(tr)}

\* The upstream setting each push variant leaves after a successful push.
PushUpstreams(name, up, tr) ==
    {push_changes_set_upstream(name, up, tr),
     push_changes_with_realtime_logs_set_upstream(name, up, tr),
     push_changes_with_logs_set_upstream(name, up, tr)}

\* The commands ops answer every credential request alike.
SameCredentials(ops) ==
    \A allowed \in SUBSET CredentialTypes, works \in SUBSET Strategies :
        \A op1 \in ops, op2 \in ops :
            CredentialsOf(op1, allowed, RepoConfig, works)
                = CredentialsOf(op2, allowed, RepoConfig, works)

\* C38 (logging variants): whenever a pull variant runs, the other variant,
\* from the same state and after the same fetch, returns at the same site and
\* leaves the same commits, HEAD and refs; whenever a push variant runs, the
\* other variants, on the same answer of the remote, succeed or fail with it
\* and leave the same upstream setting; and the variants of a command answer
\* the credential requests of the remote alike.
C38_VariantsAgree ==
    /\ SameCredentials(PullOps)
    /\ SameCredentials(PushOps)
    /\ [][/\ (PullRan /\ PullFetched)
                => \A r \in PullVariants(tracking') :
                       /\ r.ok = last'.ok
                       /\ r.outcome = last'.outcome
                       /\ r.commits = commits'
                       /\ r.head = head'
                       /\ r.refs = refs'
          /\ last'.op \in PushOps
                => \A up \in PushUpstreams(BranchName(head), upstream, tracking') :
                       upstream' = IF last'.ok THEN up ELSE upstream]_vars

C38_Witness ==
    /\ last.op = "pull_changes_with_logs"
    /\ last.outcome = "fast_forward"

\* ------------------------------------------------- the recent repositories

\* This step is a save_recent_repo that wrote the list.
SaveRan == last'.op = "save_recent_repo" /\ last'.ok /\ view' = NoView

\* The paths of a list, in its order.
RecentPaths(repos) == [k \in 1..Len(repos) |-> repos[k].path]

\* The list without the path p, in its order.
Without(paths, p) == SelectSeq(paths, LAMBDA q : q # p)

\* C39 (recent list): the stored list never has more than 10 entries nor two
\* entries with the same path; a save puts the saved path first and keeps
\* behind it the other entries in the order they had, which is the order of
\* their last save, dropping those beyond the tenth.
C39_RecentList ==
    /\ [](/\ Len(recent) <= MaxRecentRepos
          /\ \A i \in 1..Len(recent), j \in 1..Len(recent) :
                 recent[i].path = recent[j].path => i = j)
    /\ [][SaveRan
            => LET others == Without(RecentPaths(recent), last'.path)
                   kept == IF Len(others) < MaxRecentRepos THEN Len(others)
                           ELSE MaxRecentRepos - 1
               IN  /\ recent' # <<>>
                   /\ recent'[1].path = last'.path
                   /\ Tail(RecentPaths(recent')) = SubSeq(others, 1, kept)]_vars

\* A save into a full list of a path it does not hold has dropped the last.
C39_Witness ==
    /\ last.op = "save_recent_repo"
    /\ last.ok
    /\ Len(recent) = MaxRecentRepos
    /\ recent[1].path = last.path
    /\ recent[1].path = <<"/", Len(<<"init">>)>>
    /\ \A k \in 1..Len(recent) : recent[k].path # <<"/", MaxRecentRepos>>

=============================================================================
